---- MODULE Spec2Model ----
(***************************************************************************)
(* Model of the probe harness of compare-dashboard-functions:              *)
(*   - the value bag and status label of a probe (common/base_metric.py),  *)
(*   - the lifecycle of one probe, HTTP and WebSocket                      *)
(*     (common/metric_types.py, metrics/ethereum.py, metrics/solana.py),   *)
(*   - the factory and the collection orchestrator                         *)
(*     (common/factory.py, common/metrics_handler.py).                     *)
(*   - the reference state: the blob document and its reader               *)
(*     (common/state/blob_storage.py, common/state/blockchain_state.py),   *)
(*     and the fetch of a chain's state                                    *)
(*     (common/state/blockchain_fetcher.py, api/support/update_state.py).  *)
(*   - the timing utility (common/http_timing.py), the inbound trigger and *)
(*     the push to Grafana (common/metrics_handler.py), two interleaved    *)
(*     writers of the blob, the label set (common/metric_config.py) and    *)
(*     the config objects of the factory,                                  *)
(*   - the requests of the old-slot search of the fetcher, and two         *)
(*     invocations of handle that overlap on one event loop.               *)
(* Each subsystem has its own specification over the shared variables;     *)
(* the variables a specification does not use stay at their idle value.    *)
(***************************************************************************)
EXTENDS Integers, Sequences, FiniteSets, TLC

VARIABLES
    \* ---- one probe (BaseMetric and its subclasses) ----
    kind,             \* which class the probe is
    pc,               \* position inside collect_metric
    response_status,  \* labels[RESPONSE_STATUS]
    values,           \* self.values : value_type -> MetricValue
    subscription_id,  \* WebSocketMetric.subscription_id
    websocket,        \* the local `websocket` of collect_metric
    retry_count,      \* loop variable of fetch_data
    wait_time,        \* local of fetch_data: the Retry-After being slept
    conn_time,        \* timing["conn_end"] - timing["conn_start"], Nil if unset
    clock,            \* ticks elapsed since collect_metric started
    \* observations of the probe's run
    sent,             \* messages handed to websocket.send, in order
    acks,             \* "result" of each subscription acknowledgement read
    msg,              \* what the listen receive produced
    latency,          \* what process_data returned
    exit,             \* how the try block of collect_metric ended
    marks,            \* number of mark_success / mark_failure calls
    unsubCalls,       \* number of calls of self.unsubscribe
    closeCalls,       \* number of calls of websocket.close
    listenRecvs,      \* number of receives made by listen_for_data
    requests,         \* number of HTTP requests sent by fetch_data
    last_response,    \* what the last of them got, None before the first
    rpc_log,          \* what each of them got, and the Retry-After read from it
    slept,            \* the seconds fetch_data slept between them, in order
    \* ---- direct use of the BaseMetric API ----
    lastOp,           \* last BaseMetric method applied
    prevValues,       \* self.values before that method
    \* ---- one invocation of MetricsHandler.handle ----
    metrics,          \* MetricsHandler.metrics: the registered classes, in order
    providers,        \* the providers of the chain in ENDPOINTS, in order
    registry,         \* MetricFactory._registry: chain -> registrations
    hpc,              \* position inside handle
    state_data,       \* the local state_data of handle
    get_data_calls,   \* the calls of BlockchainState.get_data of the invocation
    tasks,            \* one collect_metrics task per provider
    instances,        \* MetricsHandler._instances, in creation order
    output,           \* the instances that contributed to metrics_text
    \* ---- MetricFactory._registry over the invocations of one process ----
    rchain,           \* blockchain of the handler that was invoked last
    rmetrics,         \* the metric list of that handler, or of the register call
    regOp,            \* the last operation on the registry
    prevKeys,         \* the chains the registry held before that operation
    prevLen,          \* registrations of rchain before that operation
    \* ---- the text of one metric ----
    fname,            \* BaseMetric.metric_name
    flabels,          \* BaseMetric.labels.labels: the list of (key, value)
    fvalues,          \* BaseMetric.values
    ftime,            \* time.time_ns() of get_metrics_text, Nil before it
    ftext,            \* the lines of metrics_text
    \* ---- the state document of the blob store and BlockchainState.get_data ----
    doc,              \* the JSON document of the blob: key -> entry, Nil if absent
    written,          \* the state last handed to the store's writer, Nil if none
    spc,              \* position inside get_data
    sarg,             \* the argument `blockchain` of get_data
    attempt,          \* loop variable of get_data
    failures,         \* what failed in each attempt made so far, in order
    sleeps,           \* the attempts after which get_data slept, in order
    waited,           \* seconds slept by get_data
    sresult,          \* what get_data returned, Nil before it returns
    \* ---- BlockchainDataFetcher.fetch_latest_data for one chain ----
    bchain,           \* the argument `blockchain`
    rpc,              \* what the RPC node answers to each request
    previous_data,    \* previous_data[blockchain] of the state update, Nil if absent
    bpc,              \* position: "ready", "done"
    bdata,            \* what fetch_latest_data returned
    bentry,           \* what fetch_single returned for the chain
    \* ==== later subsystems ====
    \* ---- one invocation of StateUpdateManager.update ----
    region,           \* os.getenv("VERCEL_REGION")
    endpoints,        \* the providers of ENDPOINTS, in order
    upc,              \* position inside update
    uprev,            \* the local previous_data: chain -> entry
    chainstack_endpoints, \* the local chainstack_endpoints: chain -> endpoint
    ufetched,         \* what fetch_latest_data returned for each chain queried
    blockchain_data,  \* the local blockchain_data: chain -> entry
    stored,           \* the document handed to the blob store, Nil if none
    uerror,           \* the exception update raised, Nil if none
    uresult,          \* the string update returned
    \* ---- one call of measure_http_request_timing or make_json_rpc_request ----
    tcall,            \* which of the two functions was called
    tpc,              \* position inside the call
    tretry,           \* retry_count, the loop variable
    tanswers,         \* what the transport did with each request sent, in order
    theaders,         \* the Retry-After header of each 429 that was retried, in order
    tsleeps,          \* the argument of each asyncio.sleep, in order
    tpending,         \* the argument of the asyncio.sleep being awaited
    tresult,          \* how the call ended, Nil before it ends
    timing,           \* the collector's dict: end - start and conn_end - conn_start, Nil if unset
    texclude,         \* exclude_connection_time
    tattempts,        \* the wall time and the connection time of each attempt, in order
    tresponse_time,   \* the response time returned, Nil if none
    \* ---- one request to the trigger of a chain (BaseVercelHandler.do_GET) ----
    authorization,    \* self.headers.get("Authorization")
    cron_secret,      \* os.environ.get("CRON_SECRET")
    skip_auth,        \* os.environ.get("SKIP_AUTH")
    grafana_config,   \* which of url, user, api_key are set
    gpc,              \* position inside do_GET, handle and push_to_grafana
    collected,        \* whether the gather of the collection tasks ran
    metrics_text,     \* the local metrics_text of handle
    push_attempt,     \* the loop variable attempt of push_to_grafana
    posts,            \* what each POST got, in order
    push_sleeps,      \* the seconds slept between the POSTs, in order
    handle_result,    \* what handle returned or raised, Nil before
    status_code,      \* the status sent by send_response, Nil before
    body,             \* what was written to wfile
    \* ---- two BlobStorageHandler.update operations on one blob ----
    blob,             \* the document the store holds
    wchain,           \* writer -> the blockchain argument of its update
    wblock,           \* writer -> the block argument of its update
    blob_url,         \* writer -> whether its handler has _blob_url
    wpc,              \* writer -> position inside update
    wattempt,         \* writer -> the loop variable attempt
    wread,            \* writer -> the document its last GET returned, Nil before
    wfailures,        \* writer -> how many of its own requests failed
    wresult,          \* writer -> "returned" or "raised", None before
    last_put,         \* the last PUT the store applied: who, which, from what read; Nil before
    blob_at_start,    \* the document the store held before the first request of a writer
    \* ---- one MetricLabels object and the calls made on it ----
    self_labels,      \* MetricLabels.labels: the list of (key, value)
    lab_call,         \* the last call: method, key and value; Nil before the first
    lab_raised,       \* the exception the last call raised, None if it returned
    lab_before,       \* MetricLabels.labels before the last call
    \* ---- the objects of one create_metrics call: configs, endpoints, label sets ----
    cregs,            \* the classes registered for the chain, in order
    ckwargs,          \* the kwargs of create_metrics: http_endpoint, tx_endpoint, ws_endpoint
    csd,              \* the state_data handed to the constructors
    heap,             \* the MetricConfig objects and the EndpointConfig objects, by identity
    label_objs,       \* the MetricLabels objects, by identity
    made,             \* the instances created: class, provider, config object, labels object
    cpc,              \* position inside create_metrics
    creg,             \* the index of the next registration of the loop
    marked,           \* instance -> the status its own mark_success or mark_failure set
    \* ---- one _get_block_in_range call and its _make_rpc_request calls ----
    fslot,            \* the loop variable slot of _get_block_in_range
    fattempt,         \* the loop variable attempt of _make_rpc_request
    frequests,        \* the requests sent for the current slot
    fsleeps,          \* the seconds slept for the current slot, in order
    fhistory,         \* the slots left behind: slot, requests, sleeps, last answer
    fpc,              \* position inside the two loops
    ffound,           \* the slot returned, Nil if none
    \* ---- two overlapping invocations of handle in one process (SpecOverlap) ----
    oregistry,        \* MetricFactory._registry, the one of the process
    ochain,           \* self.blockchain of each invocation's handler
    ometrics,         \* self.metrics of each invocation's handler
    oprovider,        \* the provider of each invocation's chain
    opc,              \* position of each invocation inside handle
    ostate,           \* state_data of each invocation, Nil before get_data returned
    oinstances,       \* self._instances of each invocation's handler
    ooutput,          \* metrics_text of each invocation
    \* ==== end of later subsystems ====
    examined          \* the slots asked for by the old-slot search, in order

probeVars == <<kind, pc, response_status, values, subscription_id, websocket,
               retry_count, wait_time, conn_time, clock, sent, acks, msg,
               latency, exit, marks, unsubCalls, closeCalls, listenRecvs, requests,
               last_response, rpc_log, slept>>
apiVars == <<lastOp, prevValues>>
handleVars == <<metrics, providers, registry, hpc, state_data,
                get_data_calls, tasks, instances, output>>
regVars == <<rchain, rmetrics, regOp, prevKeys, prevLen>>
fmtVars == <<fname, flabels, fvalues, ftime, ftext>>
stateVars == <<doc, written, spc, sarg, attempt, failures, sleeps, waited,
               sresult>>
fetchVars == <<bchain, rpc, previous_data, bpc, bdata, bentry, examined>>
\* the variable groups of the later subsystems
updVars == <<region, endpoints, upc, uprev, chainstack_endpoints, ufetched,
             blockchain_data, stored, uerror, uresult>>
timingVars == <<tcall, tpc, tretry, tanswers, theaders, tsleeps, tpending,
                tresult, timing, texclude, tattempts, tresponse_time>>
trigVars == <<authorization, cron_secret, skip_auth, grafana_config, gpc,
              collected, metrics_text, push_attempt, posts, push_sleeps,
              handle_result, status_code, body>>
raceVars == <<blob, wchain, wblock, blob_url, wpc, wattempt, wread,
              wfailures, wresult, last_put, blob_at_start>>
labVars == <<self_labels, lab_call, lab_raised, lab_before>>
cfgVars == <<cregs, ckwargs, csd, heap, label_objs, made, cpc, creg, marked>>
frpcVars == <<fslot, fattempt, frequests, fsleeps, fhistory, fpc, ffound>>
ovlVars == <<oregistry, ochain, ometrics, oprovider, opc, ostate, oinstances,
             ooutput>>
notUpd == <<probeVars, apiVars, handleVars, regVars, fmtVars, stateVars,
            fetchVars, timingVars, trigVars, raceVars, labVars, cfgVars,
            frpcVars, ovlVars>>
notTiming == <<probeVars, apiVars, handleVars, regVars, fmtVars, stateVars,
               fetchVars, updVars, trigVars, raceVars, labVars, cfgVars,
               frpcVars, ovlVars>>
notTrig == <<probeVars, apiVars, handleVars, regVars, fmtVars, stateVars,
             fetchVars, updVars, timingVars, raceVars, labVars, cfgVars,
             frpcVars, ovlVars>>
notRace == <<probeVars, apiVars, handleVars, regVars, fmtVars, stateVars,
             fetchVars, updVars, timingVars, trigVars, labVars, cfgVars,
             frpcVars, ovlVars>>
notLab == <<probeVars, apiVars, handleVars, regVars, fmtVars, stateVars,
            fetchVars, updVars, timingVars, trigVars, raceVars, cfgVars,
            frpcVars, ovlVars>>
notCfg == <<probeVars, apiVars, handleVars, regVars, fmtVars, stateVars,
            fetchVars, updVars, timingVars, trigVars, raceVars, labVars,
            frpcVars, ovlVars>>
notFrpc == <<probeVars, apiVars, handleVars, regVars, fmtVars, stateVars,
             fetchVars, updVars, timingVars, trigVars, raceVars, labVars,
             cfgVars, ovlVars>>
notOvl == <<probeVars, apiVars, handleVars, regVars, fmtVars, stateVars,
            fetchVars, updVars, timingVars, trigVars, raceVars, labVars,
            cfgVars, frpcVars>>
\* all the groups of the later subsystems
lateVars == <<updVars, timingVars, trigVars, raceVars, labVars, cfgVars,
              frpcVars, ovlVars>>
extVars == <<regVars, fmtVars, stateVars, fetchVars, lateVars>>

-----------------------------------------------------------------------------
(* Bounds of the model *)

\* latencies a measurement can yield: -1 (clock skew) .. MaxLatency
MaxLatency == 2
\* config.timeout of a probe, in ticks of the model clock
TimeoutTicks == 3
\* largest Retry-After (or default wait) in ticks
MaxRetryAfter == 2
\* subscription ids a provider can hand out: 1 .. MaxSubId
MaxSubId == 2

(* Program constants *)
MAX_RETRIES == 3

None == "None"
\* an optional number: Nil, or Some(n)
Nil == <<>>
Some(x) == <<x>>
Val(o) == o[1]
Latencies == -1 .. MaxLatency
SubIds == 1 .. MaxSubId

-----------------------------------------------------------------------------
(* common/base_metric.py: the value bag *)

ValueTypes == {"response_time", "slot_latency"}
\* per-value labels: None, an empty dict, or a non-empty dict
LabelOpts == {None, "empty", "lbl"}
Truthy(l) == l \notin {None, "empty"}
MetricValue(v, l) == [value |-> v, labels |-> l]
EmptyBag == [t \in {} |-> MetricValue(0, None)]

update_metric_value_nolabels(bag, value, value_type, labels) ==
    [t \in DOMAIN bag \cup {value_type} |->
        IF t = value_type THEN MetricValue(value, labels) ELSE bag[t]]

\* labels = labels or self.values[value_type].labels (only for an existing key)
update_metric_value(bag, value, value_type, labels) ==
    LET l == IF value_type \in DOMAIN bag /\ ~Truthy(labels)
             THEN bag[value_type].labels
             ELSE labels
    IN [t \in DOMAIN bag \cup {value_type} |->
           IF t = value_type THEN MetricValue(value, l) ELSE bag[t]]

\* for value_type in list(self.values.keys()): self.update_metric_value(0, value_type)
RECURSIVE zero_all(_, _)
zero_all(bag, keys) ==
    IF keys = {} THEN bag
    ELSE LET k == CHOOSE x \in keys : TRUE
         IN zero_all(update_metric_value(bag, 0, k, None), keys \ {k})

\* the value-bag part of mark_failure
mark_failure(bag) == zero_all(bag, DOMAIN bag)

handle_error_no_default(bag) == bag

\* if not self.values: self.update_metric_value(0)
handle_error(bag) ==
    IF DOMAIN bag = {} THEN update_metric_value(bag, 0, "response_time", None)
    ELSE bag


-----------------------------------------------------------------------------
(* Idle values of the variable groups *)

ProbeIdle ==
    /\ kind = "none" /\ pc = "idle"
    /\ response_status = "pending" /\ values = EmptyBag
    /\ subscription_id = Nil /\ websocket = None
    /\ retry_count = 0 /\ wait_time = 0 /\ conn_time = Nil /\ clock = 0
    /\ sent = <<>> /\ acks = <<>> /\ msg = None /\ latency = Nil /\ exit = None
    /\ marks = 0 /\ unsubCalls = 0 /\ closeCalls = 0 /\ listenRecvs = 0
    /\ requests = 0 /\ last_response = None
    /\ rpc_log = <<>> /\ slept = <<>>

ApiIdle == lastOp = None /\ prevValues = EmptyBag

HandleIdle ==
    /\ metrics = <<>> /\ providers = <<>> /\ registry = <<>>
    /\ hpc = "idle" /\ state_data = [tx |-> FALSE] /\ get_data_calls = 0
    /\ tasks = <<>>
    /\ instances = <<>> /\ output = <<>>

RegIdle ==
    /\ rchain = None /\ rmetrics = <<>> /\ regOp = None
    /\ prevKeys = {} /\ prevLen = 0

FmtIdle ==
    /\ fname = None /\ flabels = <<>> /\ fvalues = EmptyBag
    /\ ftime = Nil /\ ftext = <<>>

StateIdle ==
    /\ doc = <<>> /\ written = Nil /\ spc = "idle" /\ sarg = None
    /\ attempt = 0 /\ failures = <<>> /\ sleeps = <<>> /\ waited = 0
    /\ sresult = Nil

FetchIdle ==
    /\ bchain = None /\ rpc = <<>> /\ previous_data = Nil /\ bpc = "idle"
    /\ bdata = Nil /\ bentry = Nil /\ examined = <<>>

\* idle values of the later subsystems
UpdIdle ==
    /\ region = None
    /\ endpoints = <<>>
    /\ upc = "idle"
    /\ uprev = <<>>
    /\ chainstack_endpoints = <<>>
    /\ ufetched = <<>>
    /\ blockchain_data = <<>>
    /\ stored = Nil
    /\ uerror = Nil
    /\ uresult = None

TimingIdle ==
    /\ tcall = None
    /\ tpc = "idle"
    /\ tretry = 0
    /\ tanswers = <<>>
    /\ theaders = <<>>
    /\ tsleeps = <<>>
    /\ tpending = 0
    /\ tresult = Nil
    /\ timing = [total |-> Nil, conn |-> Nil]
    /\ texclude = FALSE
    /\ tattempts = <<>>
    /\ tresponse_time = Nil

TrigIdle ==
    /\ authorization = Nil
    /\ cron_secret = Nil
    /\ skip_auth = Nil
    /\ grafana_config = [url |-> FALSE, user |-> FALSE, api_key |-> FALSE]
    /\ gpc = "idle"
    /\ collected = FALSE
    /\ metrics_text = ""
    /\ push_attempt = 0
    /\ posts = <<>>
    /\ push_sleeps = <<>>
    /\ handle_result = Nil
    /\ status_code = Nil
    /\ body = ""

RaceIdle ==
    /\ blob = <<>>
    /\ wchain = <<>>
    /\ wblock = <<>>
    /\ blob_url = <<>>
    /\ wpc = <<>>
    /\ wattempt = <<>>
    /\ wread = <<>>
    /\ wfailures = <<>>
    /\ wresult = <<>>
    /\ last_put = Nil
    /\ blob_at_start = <<>>

LabIdle ==
    /\ self_labels = <<>>
    /\ lab_call = Nil
    /\ lab_raised = None
    /\ lab_before = <<>>

CfgIdle ==
    /\ cregs = <<>>
    /\ ckwargs = <<>>
    /\ csd = [tx |-> FALSE]
    /\ heap = <<>>
    /\ label_objs = <<>>
    /\ made = <<>>
    /\ cpc = "idle"
    /\ creg = 0
    /\ marked = <<>>

FrpcIdle ==
    /\ fslot = 0
    /\ fattempt = 0
    /\ frequests = 0
    /\ fsleeps = <<>>
    /\ fhistory = <<>>
    /\ fpc = "idle"
    /\ ffound = Nil

OvlIdle ==
    /\ oregistry = <<>>
    /\ ochain = <<>>
    /\ ometrics = <<>>
    /\ oprovider = <<>>
    /\ opc = <<>>
    /\ ostate = <<>>
    /\ oinstances = <<>>
    /\ ooutput = <<>>

NotUpdIdle ==
    /\ ProbeIdle
    /\ ApiIdle
    /\ HandleIdle
    /\ RegIdle
    /\ FmtIdle
    /\ StateIdle
    /\ FetchIdle
    /\ TimingIdle
    /\ TrigIdle
    /\ RaceIdle
    /\ LabIdle
    /\ CfgIdle
    /\ FrpcIdle
    /\ OvlIdle

NotTimingIdle ==
    /\ ProbeIdle
    /\ ApiIdle
    /\ HandleIdle
    /\ RegIdle
    /\ FmtIdle
    /\ StateIdle
    /\ FetchIdle
    /\ UpdIdle
    /\ TrigIdle
    /\ RaceIdle
    /\ LabIdle
    /\ CfgIdle
    /\ FrpcIdle
    /\ OvlIdle

NotTrigIdle ==
    /\ ProbeIdle
    /\ ApiIdle
    /\ HandleIdle
    /\ RegIdle
    /\ FmtIdle
    /\ StateIdle
    /\ FetchIdle
    /\ UpdIdle
    /\ TimingIdle
    /\ RaceIdle
    /\ LabIdle
    /\ CfgIdle
    /\ FrpcIdle
    /\ OvlIdle

NotRaceIdle ==
    /\ ProbeIdle
    /\ ApiIdle
    /\ HandleIdle
    /\ RegIdle
    /\ FmtIdle
    /\ StateIdle
    /\ FetchIdle
    /\ UpdIdle
    /\ TimingIdle
    /\ TrigIdle
    /\ LabIdle
    /\ CfgIdle
    /\ FrpcIdle
    /\ OvlIdle

NotLabIdle ==
    /\ ProbeIdle
    /\ ApiIdle
    /\ HandleIdle
    /\ RegIdle
    /\ FmtIdle
    /\ StateIdle
    /\ FetchIdle
    /\ UpdIdle
    /\ TimingIdle
    /\ TrigIdle
    /\ RaceIdle
    /\ CfgIdle
    /\ FrpcIdle
    /\ OvlIdle

NotCfgIdle ==
    /\ ProbeIdle
    /\ ApiIdle
    /\ HandleIdle
    /\ RegIdle
    /\ FmtIdle
    /\ StateIdle
    /\ FetchIdle
    /\ UpdIdle
    /\ TimingIdle
    /\ TrigIdle
    /\ RaceIdle
    /\ LabIdle
    /\ FrpcIdle
    /\ OvlIdle

NotFrpcIdle ==
    /\ ProbeIdle
    /\ ApiIdle
    /\ HandleIdle
    /\ RegIdle
    /\ FmtIdle
    /\ StateIdle
    /\ FetchIdle
    /\ UpdIdle
    /\ TimingIdle
    /\ TrigIdle
    /\ RaceIdle
    /\ LabIdle
    /\ CfgIdle
    /\ OvlIdle

NotOvlIdle ==
    /\ ProbeIdle
    /\ ApiIdle
    /\ HandleIdle
    /\ RegIdle
    /\ FmtIdle
    /\ StateIdle
    /\ FetchIdle
    /\ UpdIdle
    /\ TimingIdle
    /\ TrigIdle
    /\ RaceIdle
    /\ LabIdle
    /\ CfgIdle
    /\ FrpcIdle

LateIdle ==
    /\ UpdIdle
    /\ TimingIdle
    /\ TrigIdle
    /\ RaceIdle
    /\ LabIdle
    /\ CfgIdle
    /\ FrpcIdle
    /\ OvlIdle

ExtIdle == RegIdle /\ FmtIdle /\ StateIdle /\ FetchIdle /\ LateIdle

-----------------------------------------------------------------------------
(* SpecApi: the BaseMetric methods applied in any order to one metric.     *)
(* BaseMetric.__init__ leaves an empty bag and the "pending" status.       *)

ApiUpdate ==
    \E v \in Latencies, t \in ValueTypes, l \in LabelOpts :
        /\ prevValues' = values
        /\ values' = update_metric_value(values, v, t, l)
        /\ lastOp' = "update_metric_value"
        /\ UNCHANGED response_status

ApiMarkSuccess ==
    /\ response_status' = "success"
    /\ lastOp' = "mark_success"
    /\ prevValues' = values
    /\ UNCHANGED values

ApiMarkFailure ==
    /\ response_status' = "failed"
    /\ prevValues' = values
    /\ values' = mark_failure(values)
    /\ lastOp' = "mark_failure"

ApiHandleError ==
    /\ prevValues' = values
    /\ values' = handle_error(values)
    /\ lastOp' = "handle_error"
    /\ UNCHANGED response_status

apiFrame == <<kind, pc, subscription_id, websocket, retry_count, wait_time,
              conn_time, clock, sent, acks, msg, latency, exit, marks,
              unsubCalls, closeCalls, listenRecvs, requests,
              last_response, rpc_log, slept>>

InitApi == ProbeIdle /\ ApiIdle /\ HandleIdle /\ ExtIdle

NextApi ==
    \/ ApiUpdate /\ UNCHANGED <<apiFrame, handleVars, extVars>>
    \/ ApiMarkSuccess /\ UNCHANGED <<apiFrame, handleVars, extVars>>
    \/ ApiMarkFailure /\ UNCHANGED <<apiFrame, handleVars, extVars>>
    \/ ApiHandleError /\ UNCHANGED <<apiFrame, handleVars, extVars>>

vars == <<probeVars, apiVars, handleVars, extVars>>

SpecApi == InitApi /\ [][NextApi]_vars

-----------------------------------------------------------------------------
(* SpecProbe: one probe running collect_metric once.                       *)
(* Every await of the code is the end of one action; what the transport    *)
(* answers is chosen by the action.                                        *)

\* HttpMetric subclass with its own fetch_data / JSON-RPC probe /
\* EVM newHeads / Solana blockSubscribe / EVM logs
ProbeKinds == {"http", "jsonrpc", "ws_evm", "ws_sol", "ws_log"}
HttpKinds == {"http", "jsonrpc"}
WsKinds == {"ws_evm", "ws_sol", "ws_log"}
\* the kinds that run WebSocketMetric.collect_metric itself
WsBaseKinds == {"ws_evm", "ws_sol"}

\* exception classes as the except clauses tell them apart
Exceptions == {"TimeoutError", "Error"}

except_marks_unless_timeout(k, exc) == exc # "TimeoutError"

\* whether the except clause of collect_metric calls mark_failure/handle_error
except_marks(k, exc) == k # "ws_log" \/ exc # "TimeoutError"

\* except Exception as e: self.mark_failure(); self.handle_error(e)
ExceptClause(exc) ==
    /\ exit' = exc
    /\ IF except_marks(kind, exc)
       THEN /\ response_status' = "failed"
            /\ values' = handle_error(mark_failure(values))
            /\ marks' = marks + 1
       ELSE UNCHANGED <<response_status, values, marks>>

\* latency = self.process_data(data); self.update_metric_value(latency);
\* self.mark_success(); return
Success(l) ==
    /\ latency' = Some(l)
    /\ values' = update_metric_value(values, l, "response_time", None)
    /\ response_status' = "success"
    /\ marks' = marks + 1
    /\ exit' = "success"

InitProbe ==
    /\ kind \in ProbeKinds /\ pc = "start"
    /\ response_status = "pending" /\ values = EmptyBag
    /\ subscription_id = Nil /\ websocket = None
    /\ retry_count = 0 /\ wait_time = 0 /\ conn_time = Nil /\ clock = 0
    /\ sent = <<>> /\ acks = <<>> /\ msg = None /\ latency = Nil /\ exit = None
    /\ marks = 0 /\ unsubCalls = 0 /\ closeCalls = 0 /\ listenRecvs = 0
    /\ requests = 0 /\ last_response = None
    /\ rpc_log = <<>> /\ slept = <<>>
    /\ ApiIdle /\ HandleIdle /\ ExtIdle

wsObs == <<sent, acks, msg, unsubCalls, closeCalls, listenRecvs>>
wsState == <<subscription_id, websocket>>
rpcState == <<retry_count, wait_time, conn_time, clock, requests,
              last_response, rpc_log, slept>>

\* HttpMetric.collect_metric over a subclass's own fetch_data
HttpFetch ==
    /\ kind = "http" /\ pc = "start"
    /\ \E o \in {"data", "none"} \cup Exceptions :
          CASE o = "data" -> \E l \in Latencies : Success(l)
            [] o = "none" -> ExceptClause("Error") /\ UNCHANGED latency
            [] OTHER      -> ExceptClause(o) /\ UNCHANGED latency
    /\ pc' = "done"
    /\ UNCHANGED <<kind, wsObs, wsState, rpcState, apiVars, handleVars, extVars>>

\* an entry of rpc_log: what a request got, when fetch_data read it the
\* Retry-After (or the default wait) of the response, the wall time of the
\* request and the time of the connection it created (Nil: it created none)
RpcLogEntry(o, w, d, c) == [answer |-> o, retry_after |-> w, wall |-> d, conn |-> c]

rpc_response_ok_by_status(o) == o \in {"200", "200_error"}

\* HttpCallLatencyMetricBase.fetch_data, after the loop: the response is
\* accepted when its status is 200 and its body has no "error"
rpc_response_ok(o) == o = "200"

\* One pass of the retry loop of HttpCallLatencyMetricBase.fetch_data, and,
\* when the loop is left, the rest of fetch_data and of collect_metric.
RpcRequest ==
    /\ kind = "jsonrpc" /\ pc \in {"start", "request"}
    /\ requests' = requests + 1
    /\ \E o \in {"200", "200_error", "429", "500", "TimeoutError", "Error"},
          d \in 0 .. TimeoutTicks,
          c \in {Nil} \cup {Some(n) : n \in 0 .. TimeoutTicks} :
          \* a request that gets no response is cut at the timeout
          /\ o = "TimeoutError" => d = TimeoutTicks
          \* c: the connection hooks of this attempt; Nil: they did not both
          \* fire (connection reused, or not established)
          /\ c # Nil => Val(c) <= d
          /\ requests = 0 /\ o \notin Exceptions => c # Nil
          /\ conn_time' = IF c = Nil THEN conn_time ELSE c
          /\ last_response' = o
          /\ clock' = clock + d
          /\ IF o = "429" /\ retry_count < MAX_RETRIES - 1
             THEN \E w \in 0 .. MaxRetryAfter, bad \in BOOLEAN :
                     \* int(response.headers.get("Retry-After", 15)) may raise
                     IF bad
                     THEN /\ ExceptClause("Error") /\ pc' = "done"
                          /\ rpc_log' = Append(rpc_log, RpcLogEntry(o, Nil, d, c))
                          /\ UNCHANGED <<wait_time, latency>>
                     ELSE /\ wait_time' = w /\ pc' = "sleep"
                          /\ rpc_log' = Append(rpc_log, RpcLogEntry(o, Some(w), d, c))
                          /\ UNCHANGED <<response_status, values, marks,
                                         latency, exit>>
             ELSE /\ pc' = "done"
                  /\ rpc_log' = Append(rpc_log, RpcLogEntry(o, Nil, d, c))
                  /\ UNCHANGED wait_time
                  /\ CASE o \in Exceptions -> ExceptClause(o) /\ UNCHANGED latency
                       [] rpc_response_ok(o) ->
                            Success(d - (IF conn_time' = Nil THEN 0 ELSE Val(conn_time')))
                       [] OTHER -> ExceptClause("Error") /\ UNCHANGED latency
    /\ UNCHANGED <<kind, retry_count, slept, wsObs, wsState, apiVars, handleVars,
                   extVars>>

retry_wait_doubling(w, r) == w * (2 ^ r)

\* the seconds of `await asyncio.sleep(wait_time)` of fetch_data
retry_wait(w, r) == w

\* await asyncio.sleep(wait_time); continue
RpcSleep ==
    /\ kind = "jsonrpc" /\ pc = "sleep"
    /\ clock' = clock + retry_wait(wait_time, retry_count)
    /\ slept' = Append(slept, retry_wait(wait_time, retry_count))
    /\ retry_count' = retry_count + 1
    /\ pc' = "request"
    /\ UNCHANGED <<kind, response_status, values, marks, latency, exit,
                   wait_time, conn_time, requests, last_response, rpc_log,
                   wsObs, wsState,
                   apiVars, handleVars, extVars>>

(* ---- WebSocket probes ---- *)

httpState == <<retry_count, wait_time, conn_time, clock, requests,
               last_response, rpc_log, slept>>
result == <<response_status, values, marks, latency, exit>>

\* the subscription request a probe sends first
SubscribeMsg(k) ==
    CASE k = "ws_evm" -> "eth_subscribe_newHeads_false"
      [] k = "ws_sol" -> "blockSubscribe"
      [] k = "ws_log" -> "eth_subscribe_logs"
FallbackMsg == "eth_subscribe_newHeads"
UnsubscribeMsg(k) == IF k = "ws_sol" THEN "blockUnsubscribe" ELSE "eth_unsubscribe"
SubscribeMsgs == {SubscribeMsg(k) : k \in WsKinds} \cup {FallbackMsg}
UnsubscribeMsgs == {UnsubscribeMsg(k) : k \in WsKinds}

\* what a send or receive of kind k can raise: the Solana subscribe and
\* unsubscribe use websocket.send/recv without a timeout
IoExceptions(k) == IF k = "ws_sol" THEN {"Error"} ELSE Exceptions

\* websocket = await self.connect()
WsConnect ==
    /\ kind \in WsKinds /\ pc = "start"
    /\ \E o \in {"ok"} \cup Exceptions :
          IF o = "ok"
          THEN /\ websocket' = "open" /\ pc' = "sub_send"
               /\ UNCHANGED result
          ELSE /\ ExceptClause(o) /\ pc' = "finally"
               /\ UNCHANGED <<websocket, latency>>
    /\ UNCHANGED <<kind, subscription_id, wsObs, httpState, apiVars, handleVars, extVars>>

\* subscribe: send the (primary) subscription request
WsSubscribeSend ==
    /\ kind \in WsKinds /\ pc = "sub_send"
    /\ sent' = Append(sent, SubscribeMsg(kind))
    /\ \E o \in {"ok"} \cup IoExceptions(kind) :
          IF o = "ok"
          THEN pc' = "sub_recv" /\ UNCHANGED result
          ELSE ExceptClause(o) /\ pc' = "finally" /\ UNCHANGED latency
    /\ UNCHANGED <<kind, wsState, acks, msg, unsubCalls, closeCalls,
                   listenRecvs, httpState, apiVars, handleVars, extVars>>

retry_fallback_never(k) == FALSE

\* whether subscribe answers a null acknowledgement of the primary request
\* with the fallback request (metrics/ethereum.py) or with ValueError
retry_fallback(k) == k = "ws_evm"

\* subscribe: read the acknowledgement of the primary request
WsSubscribeRecv ==
    /\ kind \in WsKinds /\ pc = "sub_recv"
    /\ \E o \in {"ack"} \cup IoExceptions(kind),
          r \in {Nil} \cup {Some(n) : n \in SubIds} :
          IF o = "ack"
          THEN /\ acks' = Append(acks, r)
               /\ IF r # Nil
                  THEN /\ subscription_id' = r /\ pc' = "listen"
                       /\ UNCHANGED result
                  ELSE IF retry_fallback(kind)
                  THEN /\ pc' = "fb_send"
                       /\ UNCHANGED <<subscription_id, result>>
                  ELSE /\ ExceptClause("Error") /\ pc' = "finally"
                       /\ UNCHANGED <<subscription_id, latency>>
          ELSE /\ r = Nil
               /\ ExceptClause(o) /\ pc' = "finally"
               /\ UNCHANGED <<subscription_id, acks, latency>>
    /\ UNCHANGED <<kind, websocket, sent, msg, unsubCalls, closeCalls,
                   listenRecvs, httpState, apiVars, handleVars, extVars>>

\* subscribe of the EVM newHeads probe: send the request without the flag
WsFallbackSend ==
    /\ kind = "ws_evm" /\ pc = "fb_send"
    /\ sent' = Append(sent, FallbackMsg)
    /\ \E o \in {"ok"} \cup IoExceptions(kind) :
          IF o = "ok"
          THEN pc' = "fb_recv" /\ UNCHANGED result
          ELSE ExceptClause(o) /\ pc' = "finally" /\ UNCHANGED latency
    /\ UNCHANGED <<kind, wsState, acks, msg, unsubCalls, closeCalls,
                   listenRecvs, httpState, apiVars, handleVars, extVars>>

\* subscribe of the EVM newHeads probe: read the fallback acknowledgement
WsFallbackRecv ==
    /\ kind = "ws_evm" /\ pc = "fb_recv"
    /\ \E o \in {"ack"} \cup IoExceptions(kind),
          r \in {Nil} \cup {Some(n) : n \in SubIds} :
          IF o = "ack"
          THEN /\ acks' = Append(acks, r)
               /\ IF r # Nil
                  THEN /\ subscription_id' = r /\ pc' = "listen"
                       /\ UNCHANGED result
                  ELSE /\ ExceptClause("Error") /\ pc' = "finally"
                       /\ UNCHANGED <<subscription_id, latency>>
          ELSE /\ r = Nil
               /\ ExceptClause(o) /\ pc' = "finally"
               /\ UNCHANGED <<subscription_id, acks, latency>>
    /\ UNCHANGED <<kind, websocket, sent, msg, unsubCalls, closeCalls,
                   listenRecvs, httpState, apiVars, handleVars, extVars>>

\* messages a listen can receive: a push message (has "params" with a
\* "result"), or any other JSON message
Messages == {"push", "other"}

listen_skips_other(m) == m = "other"

\* whether listen_for_data goes on receiving after message m: it never does,
\* it returns after its single receive
listen_again(m) == FALSE

\* WebSocketMetric.collect_metric from listen_for_data to the end of the try
\* block (block probes): one receive, then process_data and the marking
WsListen ==
    /\ kind \in WsBaseKinds /\ pc = "listen"
    /\ listenRecvs' = listenRecvs + 1
    /\ \E o \in Messages \cup Exceptions, p \in {Some(l) : l \in Latencies} \cup {Nil} :
          IF o \in Messages /\ listen_again(o)
          THEN /\ p = Nil /\ pc' = "listen" /\ msg' = o
               /\ UNCHANGED result
          ELSE /\ pc' = "finally"
               /\ CASE o = "push" ->
                         /\ msg' = o
                         \* p = Nil: process_data raises
                         /\ IF p = Nil
                            THEN ExceptClause("Error") /\ UNCHANGED latency
                            ELSE Success(Val(p))
                    [] o = "other" ->
                         \* data is None: raise ValueError("No data in response")
                         /\ p = Nil /\ msg' = o
                         /\ ExceptClause("Error") /\ UNCHANGED latency
                    [] OTHER ->
                         /\ p = Nil /\ UNCHANGED msg
                         /\ ExceptClause(o) /\ UNCHANGED latency
    /\ UNCHANGED <<kind, wsState, sent, acks, unsubCalls, closeCalls,
                   httpState, apiVars, handleVars, extVars>>

\* WSLogLatencyMetric.listen_for_data: the single receive; every message
\* and a receive timeout lead to an unsubscribe before anything else
WsLogListen ==
    /\ kind = "ws_log" /\ pc = "listen"
    /\ listenRecvs' = listenRecvs + 1
    /\ \E o \in Messages \cup {"garbage"} \cup Exceptions :
          IF o = "Error"
          THEN /\ ExceptClause(o) /\ pc' = "finally"
               /\ UNCHANGED <<msg, unsubCalls, latency>>
          ELSE /\ msg' = (IF o = "TimeoutError" THEN "timeout" ELSE o)
               /\ unsubCalls' = unsubCalls + 1
               \* unsubscribe returns at once without a subscription id
               /\ pc' = IF subscription_id = Nil THEN "log_parse" ELSE "log_unsub_send"
               /\ UNCHANGED result
    /\ UNCHANGED <<kind, wsState, sent, acks, closeCalls, httpState, apiVars, handleVars, extVars>>

\* WSLogLatencyMetric.unsubscribe, called from listen_for_data: its send;
\* an exception is logged and unsubscribe returns
WsLogUnsubSend ==
    /\ kind = "ws_log" /\ pc = "log_unsub_send"
    /\ sent' = Append(sent, UnsubscribeMsg(kind))
    /\ \E o \in {"ok"} \cup Exceptions :
          pc' = IF o = "ok" THEN "log_unsub_recv" ELSE "log_parse"
    /\ UNCHANGED <<kind, wsState, acks, msg, unsubCalls, closeCalls,
                   listenRecvs, result, httpState, apiVars, handleVars, extVars>>

\* WSLogLatencyMetric.unsubscribe: its receive
WsLogUnsubRecv ==
    /\ kind = "ws_log" /\ pc = "log_unsub_recv"
    /\ pc' = "log_parse"
    /\ UNCHANGED <<kind, wsState, wsObs, result, httpState, apiVars, handleVars, extVars>>

\* the rest of listen_for_data and collect_metric up to the next await:
\* json.loads, the "params"/"result" test, and the log_data test
WsLogParse ==
    /\ kind = "ws_log" /\ pc = "log_parse"
    /\ CASE msg = "push" -> pc' = "log_http" /\ UNCHANGED result
         [] msg = "garbage" ->
              ExceptClause("Error") /\ pc' = "finally" /\ UNCHANGED latency
         [] OTHER ->
              \* log_data is None: return without marking
              /\ exit' = "no_data" /\ pc' = "finally"
              /\ UNCHANGED <<response_status, values, marks, latency>>
    /\ UNCHANGED <<kind, wsState, wsObs, httpState, apiVars, handleVars, extVars>>

\* calculate_timestamp_latency_http, then update_metric_value, mark_success
WsLogHttp ==
    /\ kind = "ws_log" /\ pc = "log_http"
    /\ \E o \in {"ok"} \cup Exceptions, l \in Latencies :
          IF o = "ok" THEN Success(l)
          ELSE ExceptClause(o) /\ UNCHANGED latency
    /\ pc' = "finally"
    /\ UNCHANGED <<kind, wsState, wsObs, httpState, apiVars, handleVars, extVars>>

\* whether unsubscribe returns without sending (EVM: no subscription id)
unsubscribe_skipped(k, sid) == k # "ws_sol" /\ sid = Nil

\* the finally block up to its first await
WsFinally ==
    /\ kind \in WsKinds /\ pc = "finally"
    /\ IF websocket = None
       THEN pc' = "done" /\ UNCHANGED unsubCalls
       ELSE IF kind = "ws_log"
       THEN pc' = "close" /\ UNCHANGED unsubCalls
       ELSE /\ unsubCalls' = unsubCalls + 1
            /\ pc' = IF unsubscribe_skipped(kind, subscription_id)
                     THEN "close" ELSE "unsub_send"
    /\ UNCHANGED <<kind, wsState, sent, acks, msg, closeCalls, listenRecvs,
                   result, httpState, apiVars, handleVars, extVars>>

\* where the finally block continues when unsubscribe raised: its except
\* clause, which skips websocket.close()
after_unsubscribe_error == "done"

\* unsubscribe in the finally block of WebSocketMetric.collect_metric: send
WsUnsubSend ==
    /\ kind \in WsBaseKinds /\ pc = "unsub_send"
    /\ sent' = Append(sent, UnsubscribeMsg(kind))
    /\ \E o \in {"ok"} \cup IoExceptions(kind) :
          pc' = IF o = "ok" THEN "unsub_recv" ELSE after_unsubscribe_error
    /\ UNCHANGED <<kind, wsState, acks, msg, unsubCalls, closeCalls,
                   listenRecvs, result, httpState, apiVars, handleVars, extVars>>

\* unsubscribe in the finally block: receive (and, Solana, read "result")
WsUnsubRecv ==
    /\ kind \in WsBaseKinds /\ pc = "unsub_recv"
    /\ \E o \in {"ok"} \cup IoExceptions(kind) :
          pc' = IF o = "ok" THEN "close" ELSE after_unsubscribe_error
    /\ UNCHANGED <<kind, wsState, wsObs, result, httpState, apiVars, handleVars, extVars>>

\* await websocket.close(); an exception is logged
WsClose ==
    /\ kind \in WsKinds /\ pc = "close"
    /\ closeCalls' = closeCalls + 1
    /\ websocket' = "closed"
    /\ pc' = "done"
    /\ UNCHANGED <<kind, subscription_id, sent, acks, msg, unsubCalls,
                   listenRecvs, result, httpState, apiVars, handleVars, extVars>>

NextProbe ==
    \/ HttpFetch
    \/ RpcRequest
    \/ RpcSleep
    \/ WsConnect
    \/ WsSubscribeSend
    \/ WsSubscribeRecv
    \/ WsFallbackSend
    \/ WsFallbackRecv
    \/ WsListen
    \/ WsLogListen
    \/ WsLogUnsubSend
    \/ WsLogUnsubRecv
    \/ WsLogParse
    \/ WsLogHttp
    \/ WsFinally
    \/ WsUnsubSend
    \/ WsUnsubRecv
    \/ WsClose

SpecProbe == InitProbe /\ [][NextProbe]_vars

-----------------------------------------------------------------------------
\* C5: mark_failure on a metric that has value entries sets the status to
\* "failed" and every entry's value to 0, keeps exactly the same entry keys
\* and each entry's labels; on an empty bag it adds no entry.
C5_MarkFailureZeroesKeepsKeys ==
    lastOp = "mark_failure" =>
        /\ response_status = "failed"
        /\ DOMAIN values = DOMAIN prevValues
        /\ \A t \in DOMAIN values :
              /\ values[t].value = 0
              /\ values[t].labels = prevValues[t].labels

\* a mark_failure that acted on two entries, one labelled, one non-zero
C5_Witness ==
    /\ lastOp = "mark_failure"
    /\ DOMAIN prevValues = ValueTypes
    /\ prevValues["response_time"].value = 2
    /\ prevValues["slot_latency"].labels = "lbl"
    /\ values["slot_latency"].labels = "lbl"

-----------------------------------------------------------------------------
(* Spec: one invocation of MetricsHandler.handle: registry, factory, the   *)
(* per-provider collect_metrics tasks and their probes.                    *)

\* most classes a handler registers, most providers of the chain, and most
\* probes one invocation creates over all providers
MaxMetrics == 2
MaxProviders == 2
MaxProbes == 5

Chain == "solana"
SourceRegion == "fra1"
TargetRegion == "default"
ProviderNames == <<"p1", "p2", "p3", "p4", "p5", "p6", "p7", "p8">>
\* f"{provider}_tx"
TxLabel(name) ==
    CASE name = "p1" -> "p1_tx" [] name = "p2" -> "p2_tx"
      [] name = "p3" -> "p3_tx" [] name = "p4" -> "p4_tx"
      [] name = "p5" -> "p5_tx" [] name = "p6" -> "p6_tx"
      [] name = "p7" -> "p7_tx" [] name = "p8" -> "p8_tx"

\* the probe classes a handler can register
Classes == {"SolanaLandingMetric", "HTTPBlockNumberLatencyMetric",
            "HTTPTxReceiptLatencyMetric"}

\* validate_state of each class: bool(state_data and state_data.get(key))
validate_state(cls, sd) ==
    IF cls = "HTTPTxReceiptLatencyMetric" THEN sd.tx ELSE TRUE

\* MetricFactory._create_single_metric: MetricLabels(...), then the class's
\* constructor; a failed validate_state raises before the instance is
\* appended to handler._instances
create_single_metric(cls, reg, pi, label, main_endpoint, sd) ==
    IF ~validate_state(cls, sd)
    THEN [made |-> <<>>, raised |-> TRUE]
    ELSE [made |-> << [cls |-> cls, reg |-> reg, owner |-> pi,
                       source_region |-> SourceRegion,
                       target_region |-> TargetRegion,
                       blockchain |-> Chain,
                       provider |-> label,
                       main_endpoint |-> main_endpoint,
                       http_endpoint |-> "http",
                       ppc |-> "created",
                       response_status |-> "pending",
                       values |-> EmptyBag,
                       outcome |-> None, lat |-> 0,
                       sent_to |-> None,
                       built_with |-> sd] >>,
          raised |-> FALSE]

create_solana_metrics_single(cls, reg, pi, prov, sd) ==
    create_single_metric(cls, reg, pi, prov.name, "http", sd)

\* MetricFactory._create_solana_metrics
create_solana_metrics(cls, reg, pi, prov, sd) ==
    LET first == create_single_metric(cls, reg, pi, prov.name, "http", sd)
    IN IF first.raised \/ ~prov.tx_endpoint THEN first
       ELSE LET second == create_single_metric(cls, reg, pi, TxLabel(prov.name),
                                               "tx", sd)
            IN [made |-> first.made \o second.made, raised |-> second.raised]

\* the loop of MetricFactory.create_metrics over the registrations from reg on
RECURSIVE create_loop(_, _, _, _, _, _)
create_loop(regs, reg, pi, prov, sd, acc) ==
    IF reg > Len(regs) THEN [made |-> acc, raised |-> FALSE]
    ELSE LET step == IF regs[reg] = "SolanaLandingMetric"
                     THEN create_solana_metrics(regs[reg], reg, pi, prov, sd)
                     ELSE create_single_metric(regs[reg], reg, pi, prov.name,
                                               "http", sd)
         IN IF step.raised
            THEN [made |-> acc \o step.made, raised |-> TRUE]
            ELSE create_loop(regs, reg + 1, pi, prov, sd, acc \o step.made)

\* MetricFactory.create_metrics; an unregistered chain raises ValueError
create_metrics(rg, chain, pi, prov, sd) ==
    IF chain \notin DOMAIN rg THEN [made |-> <<>>, raised |-> TRUE]
    ELSE create_loop(rg[chain], 1, pi, prov, sd, <<>>)

clear_nothing(rg) == rg

\* MetricFactory._registry.clear(); the empty dict is <<>>
clear(rg) == <<>>

\* MetricFactory.register({chain: ms}): the registrations are appended to the
\* chain's list, which is created empty if the chain is new
register(rg, chain, ms) ==
    [c \in DOMAIN rg \cup {chain} |->
        (IF c \in DOMAIN rg THEN rg[c] ELSE <<>>)
           \o (IF c = chain THEN ms ELSE <<>>)]

RECURSIVE SeqsUpTo(_, _)
SeqsUpTo(S, n) ==
    IF n = 0 THEN {<<>>}
    ELSE LET shorter == SeqsUpTo(S, n - 1)
         IN shorter \cup {Append(q, x) : q \in shorter, x \in S}

\* largest value of time.time_ns() when the text is built
MaxTime == 2

\* the metric name a handler registers its classes with (api/read, api/write)
metric_name(cls) ==
    IF cls = "SolanaLandingMetric" THEN "transaction_landing_latency"
    ELSE "response_latency_seconds"

\* the api_method label the constructor of a class sets
method(cls) ==
    CASE cls = "SolanaLandingMetric" -> "sendTransaction"
      [] cls = "HTTPBlockNumberLatencyMetric" -> "eth_blockNumber"
      [] cls = "HTTPTxReceiptLatencyMetric" -> "eth_getTransactionReceipt"

\* MetricLabels.labels of instance m: the list of (key, value) in the order
\* of MetricLabels.__init__
labels_of(m) ==
    << <<"source_region", m.source_region>>,
       <<"target_region", m.target_region>>,
       <<"blockchain", m.blockchain>>,
       <<"provider", m.provider>>,
       <<"api_method", method(m.cls)>>,
       <<"response_status", m.response_status>> >>

\* ",".join([f"{label.key.value}={label.value}" for label in labels]); a
\* string is the sequence of its pieces
RECURSIVE base_tags(_)
base_tags(labels) ==
    IF labels = <<>> THEN <<>>
    ELSE <<labels[1][1], "=", labels[1][2]>>
            \o (IF Len(labels) > 1 THEN <<",">> \o base_tags(Tail(labels))
                ELSE <<>>)

metric_line_without_type(name, labels, value_type, value) ==
    <<name, ",">> \o base_tags(labels) \o <<" ", "value", "=", ToString(value)>>

\* one pass of the loop of get_influx_format: the line of one value entry
metric_line(name, labels, value_type, value) ==
    LET bt == base_tags(labels)
        tags == IF bt # <<>>
                THEN bt \o <<",", "metric_type", "=", value_type>>
                ELSE <<"metric_type", "=", value_type>>
    IN <<name, ",">> \o tags \o <<" ", "value", "=", ToString(value)>>

\* the order in which the entries of a bag are listed
ValueTypeOrder == <<"response_time", "slot_latency">>

\* BaseMetric.get_influx_format: one line per entry of the bag
RECURSIVE get_influx_format(_, _, _, _)
get_influx_format(name, labels, bag, k) ==
    IF k > Len(ValueTypeOrder) THEN <<>>
    ELSE (IF ValueTypeOrder[k] \in DOMAIN bag
          THEN <<metric_line(name, labels, ValueTypeOrder[k],
                             bag[ValueTypeOrder[k]].value)>>
          ELSE <<>>)
         \o get_influx_format(name, labels, bag, k + 1)

\* if instance.values:
HasValues(m) == DOMAIN m.values # {}

\* f"{metric} {current_time}" for metric in metrics
stamp(lines, T) == [j \in DOMAIN lines |-> lines[j] \o <<" ", ToString(T)>>]

\* what tells the instances of one invocation apart
Src(m) == [owner |-> m.owner, reg |-> m.reg, provider |-> m.provider]

\* get_metrics_influx_format and get_metrics_text: for every instance with
\* values its lines, each followed by the timestamp T; src records the
\* instance a line comes from
RECURSIVE get_metrics_text(_, _)
get_metrics_text(insts, T) ==
    IF insts = <<>> THEN <<>>
    ELSE LET m == Head(insts)
             ls == IF HasValues(m)
                   THEN get_influx_format(metric_name(m.cls), labels_of(m),
                                          m.values, 1)
                   ELSE <<>>
             st == stamp(ls, T)
         IN [j \in DOMAIN st |-> [src |-> Src(m), line |-> st[j]]]
            \o get_metrics_text(Tail(insts), T)

\* an instance a previous invocation of the same handler left in _instances
OldInstance ==
    [cls |-> "HTTPBlockNumberLatencyMetric", reg |-> 0, owner |-> 1,
     source_region |-> SourceRegion, target_region |-> TargetRegion,
     blockchain |-> Chain, provider |-> "old",
     main_endpoint |-> "http", http_endpoint |-> "http",
     ppc |-> "done", response_status |-> "success",
     values |-> update_metric_value(EmptyBag, MaxLatency, "response_time", None),
     outcome |-> "data", lat |-> MaxLatency, sent_to |-> "http",
     built_with |-> [tx |-> FALSE]]

keep_instances(insts) == insts

\* self._instances = []
reset_instances(insts) == <<>>

\* the probes the registrations ms ask for, for one provider
ProbesOf(ms, prov) ==
    Len(ms) + (IF prov.tx_endpoint
               THEN Cardinality({r \in DOMAIN ms : ms[r] = "SolanaLandingMetric"})
               ELSE 0)

\* the probes the registrations ms ask for, for the first n providers
RECURSIVE ProbeCount(_, _, _)
ProbeCount(ms, provs, n) ==
    IF n = 0 THEN 0
    ELSE ProbesOf(ms, provs[n]) + ProbeCount(ms, provs, n - 1)

Init ==
    /\ ProbeIdle /\ ApiIdle /\ ExtIdle
    /\ metrics \in SeqsUpTo(Classes, MaxMetrics)
    /\ \E n \in 1 .. MaxProviders : \E tx \in [1 .. n -> BOOLEAN] :
          providers = [i \in 1 .. n |->
                          [name |-> ProviderNames[i], tx_endpoint |-> tx[i]]]
    /\ ProbeCount(metrics, providers, Len(providers)) <= MaxProbes
    /\ registry = <<>>
    /\ hpc = "start"
    /\ state_data = [tx |-> FALSE]
    /\ get_data_calls = 0
    /\ tasks = <<>>
    /\ instances \in {<<>>, <<OldInstance>>}
    /\ output = <<>>

\* handle up to its first await: self._instances = [], registry.clear(),
\* register({self.blockchain: self.metrics}), the provider filter
HandleStart ==
    /\ hpc = "start"
    /\ instances' = reset_instances(instances)
    /\ registry' = register(clear(registry), Chain, metrics)
    /\ hpc' = "get_data"
    /\ UNCHANGED <<metrics, providers, state_data,
                   get_data_calls, tasks, output,
                   probeVars, apiVars, extVars>>

\* state_data = await BlockchainState.get_data(...), which may raise; then
\* the collect_metrics tasks are created and gathered
HandleGetData ==
    /\ hpc = "get_data"
    /\ get_data_calls' = get_data_calls + 1
    /\ \E ok \in BOOLEAN, sd \in [tx : BOOLEAN] :
          IF ok
          THEN /\ state_data' = sd
               /\ tasks' = [i \in DOMAIN providers |-> "new"]
               /\ hpc' = "gather"
          ELSE /\ sd = state_data
               /\ hpc' = "raised"
               /\ UNCHANGED <<state_data, tasks>>
    /\ UNCHANGED <<metrics, providers, registry, instances, output,
                   probeVars, apiVars, extVars>>

kwargs_state_data_missing(sd) == [tx |-> FALSE]

\* the state_data keyword collect_metrics hands to create_metrics, and
\* create_metrics to every constructor: handle's state_data itself
kwargs_state_data(sd) == sd

\* collect_metrics up to its await: MetricConfig(...), create_metrics(...),
\* and the gather that schedules collect_metric of every created probe.
\* The event loop runs ready tasks in the order of their creation: the
\* collect_metrics tasks start in provider order.
CollectMetricsStart(pi) ==
    /\ hpc = "gather" /\ tasks[pi] = "new"
    /\ \A pj \in 1 .. pi - 1 : tasks[pj] # "new"
    /\ LET cm == create_metrics(registry, Chain, pi, providers[pi],
                                kwargs_state_data(state_data))
       IN IF cm.raised
          THEN /\ instances' = instances \o cm.made
               /\ tasks' = [tasks EXCEPT ![pi] = "raised"]
          ELSE /\ instances' = instances \o
                      [j \in DOMAIN cm.made |-> [cm.made[j] EXCEPT !.ppc = "scheduled"]]
               /\ tasks' = [tasks EXCEPT ![pi] = "awaiting"]
    /\ UNCHANGED <<metrics, providers, registry, hpc, state_data,
                   get_data_calls, output,
                   probeVars, apiVars, extVars>>

\* what the transport of a probe can produce: data or an exception
Outcomes == {"data", "Error"}

collect_metric_catches_timeouts(exc) == exc = "TimeoutError"

\* except Exception as e: which exceptions of the try block collect_metric
\* catches: every Exception
collect_metric_catches(exc) == exc \in Exceptions

\* the endpoint the transport of probe m talks to: SolanaLandingMetric
\* builds AsyncClient(self.http_endpoint), the JSON-RPC probes post to
\* self.config.endpoints.get_endpoint()
endpoint_used(m) ==
    IF m.cls = "SolanaLandingMetric" THEN m.http_endpoint ELSE m.main_endpoint

\* collect_metric of instance m, from its first await to its end, when its
\* transport produced o (and, for data, process_data returned l)
collect_metric(m, o, l) ==
    LET exc == o
    IN IF o = "data"
       THEN [m EXCEPT !.ppc = "done", !.outcome = o, !.lat = l,
                      !.sent_to = endpoint_used(m),
                      !.values = update_metric_value(m.values, l, "response_time", None),
                      !.response_status = "success"]
       ELSE IF collect_metric_catches(exc)
       THEN [m EXCEPT !.ppc = "done", !.outcome = o,
                      !.sent_to = endpoint_used(m),
                      !.values = handle_error(mark_failure(m.values)),
                      !.response_status = "failed"]
       ELSE [m EXCEPT !.ppc = "raised", !.outcome = o,
                      !.sent_to = endpoint_used(m)]

\* a scheduled collect_metric task runs: its transport produces o, and
\* collect_metric ends. Probe tasks are created by the collect_metrics tasks
\* and first run after all of those have started.
ProbeRun(i) ==
    /\ hpc = "gather" /\ instances[i].ppc = "scheduled"
    /\ \A pj \in DOMAIN tasks : tasks[pj] # "new"
    /\ \E o \in Outcomes :
          instances' = [instances EXCEPT ![i] = collect_metric(@, o, MaxLatency)]
    /\ UNCHANGED <<metrics, providers, registry, hpc, state_data,
                   get_data_calls, tasks, output,
                   probeVars, apiVars, extVars>>

Owned(pi) == {i \in DOMAIN instances : instances[i].owner = pi}

\* asyncio.gather(*coros) of collect_metrics, given the positions of the
\* gathered tasks: raises as soon as one has raised, returns when all are done
gather(ppcs) ==
    IF "raised" \in ppcs THEN "raised"
    ELSE IF \A x \in ppcs : x = "done" THEN "done"
    ELSE "pending"

\* the await of collect_metrics ends
CollectMetricsFinish(pi) ==
    /\ hpc = "gather" /\ tasks[pi] = "awaiting"
    /\ LET g == gather({instances[i].ppc : i \in Owned(pi)})
       IN /\ g # "pending"
          /\ tasks' = [tasks EXCEPT ![pi] = g]
    /\ UNCHANGED <<metrics, providers, registry, hpc, state_data,
                   get_data_calls, instances, output,
                   probeVars, apiVars, extVars>>

\* asyncio.gather(*collection_tasks, return_exceptions=True) ends when
\* every task has ended; get_metrics_text reads the instances with values
HandleFinish ==
    /\ hpc = "gather"
    /\ \A pi \in DOMAIN tasks : tasks[pi] \in {"done", "raised"}
    /\ \E T \in 1 .. MaxTime : output' = get_metrics_text(instances, T)
    /\ hpc' = "done"
    /\ UNCHANGED <<metrics, providers, registry, state_data,
                   get_data_calls, tasks, instances,
                   probeVars, apiVars, extVars>>

Next ==
    \/ HandleStart
    \/ HandleGetData
    \/ \E pi \in DOMAIN providers : CollectMetricsStart(pi)
    \/ \E i \in DOMAIN instances : ProbeRun(i)
    \/ \E pi \in DOMAIN providers : CollectMetricsFinish(pi)
    \/ HandleFinish

Spec == Init /\ [][Next]_vars

-----------------------------------------------------------------------------
(* SpecRegistry: the class attribute MetricFactory._registry over the      *)
(* sequential invocations of the handlers of one process, and over direct  *)
(* calls of MetricFactory.register.                                        *)

\* most registrations the registry holds for one chain
MaxRegistered == 3

Chains == {"solana", "ethereum"}

RegLen(rg, chain) == IF chain \in DOMAIN rg THEN Len(rg[chain]) ELSE 0

\* one invocation of handle of a handler for chain c with the metric list
\* ms, as far as the registry goes: clear, then register, both before the
\* first await of handle
RegHandle ==
    \E c \in Chains, ms \in SeqsUpTo(Classes, MaxMetrics) :
        /\ prevKeys' = DOMAIN registry
        /\ prevLen' = RegLen(registry, c)
        /\ registry' = register(clear(registry), c, ms)
        /\ rchain' = c /\ rmetrics' = ms
        /\ regOp' = "handle"
        /\ UNCHANGED <<metrics, providers, hpc, state_data,
                       get_data_calls, tasks, instances,
                       output, probeVars, apiVars, fmtVars, stateVars,
                       fetchVars, lateVars>>

\* a call of MetricFactory.register({c: ms}) on the registry as it is
RegRegister ==
    \E c \in Chains, ms \in SeqsUpTo(Classes, MaxMetrics) :
        /\ RegLen(registry, c) + Len(ms) <= MaxRegistered
        /\ prevKeys' = DOMAIN registry
        /\ prevLen' = RegLen(registry, c)
        /\ registry' = register(registry, c, ms)
        /\ rchain' = c /\ rmetrics' = ms
        /\ regOp' = "register"
        /\ UNCHANGED <<metrics, providers, hpc, state_data,
                       get_data_calls, tasks, instances,
                       output, probeVars, apiVars, fmtVars, stateVars,
                       fetchVars, lateVars>>

InitRegistry == ProbeIdle /\ ApiIdle /\ HandleIdle /\ ExtIdle

NextRegistry ==
    \/ RegHandle
    \/ RegRegister

SpecRegistry == InitRegistry /\ [][NextRegistry]_vars

-----------------------------------------------------------------------------
(* SpecFormat: get_metrics_text of a handler that holds one metric, for    *)
(* any label list and any value bag.                                       *)

\* most labels of the metric
MaxLabels == 2

LabelPairs == {<<"blockchain", "solana">>, <<"provider", "x">>,
               <<"source_region", "fra1">>}

\* the bags over the value types, with values from Latencies
Bags ==
    UNION {[S -> {MetricValue(v, None) : v \in Latencies}] : S \in SUBSET ValueTypes}

InitFormat ==
    /\ ProbeIdle /\ ApiIdle /\ HandleIdle /\ RegIdle /\ StateIdle /\ FetchIdle
    /\ LateIdle
    /\ fname \in {"response_latency_seconds"}
    /\ flabels \in SeqsUpTo(LabelPairs, MaxLabels)
    /\ fvalues \in Bags
    /\ ftime = Nil /\ ftext = <<>>

\* get_metrics_text: the lines of the metric, if it has values, stamped
\* with the current time
FormatText ==
    /\ ftime = Nil
    /\ \E T \in 1 .. MaxTime :
          /\ ftime' = Some(T)
          /\ ftext' = IF DOMAIN fvalues # {}
                      THEN stamp(get_influx_format(fname, flabels, fvalues, 1), T)
                      ELSE <<>>
    /\ UNCHANGED <<fname, flabels, fvalues, probeVars, apiVars, handleVars,
                   regVars, stateVars, fetchVars, lateVars>>

NextFormat == FormatText

SpecFormat == InitFormat /\ [][NextFormat]_vars

-----------------------------------------------------------------------------
(* SpecState: the state document of the blob store, written by a           *)
(* BlobStorageHandler and read by BlockchainState.get_data.                *)
(* A JSON object of the document is a record whose fields are Nil when the *)
(* key is absent; `dict` tells an object from any other JSON value.        *)

\* BlockchainState._RETRIES
RETRIES == 3
\* BlockchainState._RETRY_DELAY, in seconds
RETRY_DELAY == 3

StateEntry(d, b, t, o) == [dict |-> d, block |-> b, tx |-> t, old_block |-> o]
\* the JSON object {}
EmptyObject == StateEntry(TRUE, Nil, Nil, Nil)
\* a JSON value that is not an object, as the integer under "created_at"
NonObject == StateEntry(FALSE, Nil, Nil, Nil)

\* d[k] = v of a Python dict
dict_set(d, k, v) == [x \in DOMAIN d \cup {k} |-> IF x = k THEN v ELSE d[x]]
\* d.get(k, {}) of a Python dict
dict_get(d, k) == IF k \in DOMAIN d THEN d[k] ELSE EmptyObject

\* the names get_data and update are called with
ChainArgs == {"ethereum", "Ethereum", "solana", "ton"}

lower_unchanged(s) == s

\* str.lower on the strings it is applied to
lower(s) == IF s = "Ethereum" THEN "ethereum"
            ELSE IF s = "TRUE" THEN "true" ELSE s

\* BlobStorageHandler.initialize: the document it puts in the blob
initial_data ==
    [k \in {"ethereum", "solana", "ton", "base", "created_at"} |->
        IF k = "created_at" THEN NonObject
        ELSE StateEntry(TRUE, Some(None), Some(None), Nil)]

update_from_initial(current_data, blockchain, block, tx) ==
    dict_set(dict_set(initial_data, blockchain,
                      StateEntry(TRUE, Some(block), Some(tx), Nil)),
             "updated_at", NonObject)

\* BlobStorageHandler.update, the try block: the document it puts back
update(current_data, blockchain, block, tx) ==
    dict_set(dict_set(current_data, blockchain,
                      StateEntry(TRUE, Some(block), Some(tx), Nil)),
             "updated_at", NonObject)

UpdateOutcomes == {"ok", "initialize_failed", "update_failed"}
BlockIds == {"0x10", "0x11"}
TxIds == {"0xab"}
OldBlockIds == {"", "0x1"}

\* a caller that holds a state (block, tx, old block) for a chain stores it
\* with a new BlobStorageHandler: update(blockchain, block, tx) initializes
\* the blob, since _blob_url is None, and then reads the document, sets the
\* entry of the chain and puts the document back; the loop over
\* retry_attempts ends with the put done or with "Update failed" raised
BlobUpdate ==
    /\ spc = "idle"
    /\ \E c \in {"ethereum", "Ethereum"}, b \in BlockIds, t \in TxIds,
          o \in OldBlockIds, r \in UpdateOutcomes :
          /\ doc' = CASE r = "ok" -> update(initial_data, c, b, t)
                      [] r = "update_failed" -> initial_data
                      [] OTHER -> doc
          /\ written' = IF r = "ok"
                        THEN Some([blockchain |-> c, block |-> b, tx |-> t,
                                   old_block |-> o])
                        ELSE Nil
    /\ UNCHANGED <<spc, sarg, attempt, failures, sleeps, waited, sresult,
                   probeVars, apiVars, handleVars, regVars, fmtVars,
                   fetchVars, lateVars>>

\* what one attempt of get_data meets
AttemptFailures == {"network", "list_non200", "blob_missing", "fetch_non200",
                    "malformed"}
AttemptOutcomes == AttemptFailures \cup {"ok"}

\* _get_blob_url: the exception it raises, None if it returns the url
get_blob_url(o) ==
    CASE o = "network" -> "ClientError"
      [] o \in {"list_non200", "blob_missing"} -> "ValueError"
      [] OTHER -> None

\* _fetch_state_data: the exception it raises, None if it returns
fetch_state_raises(o) ==
    CASE o = "fetch_non200" -> "ValueError"
      [] o = "malformed" -> "JSONDecodeError"
      [] OTHER -> None

\* _fetch_state_data, after response.json(): an object without "old_block"
\* gets "old_block": ""
fetch_state_data(data) ==
    [chain \in DOMAIN data |->
        IF data[chain].dict /\ data[chain].old_block = Nil
        THEN [data[chain] EXCEPT !.old_block = Some("")]
        ELSE data[chain]]

sleep_after_every(a) == TRUE

\* get_data, the except clause: `if attempt < _RETRIES`
sleep_after(a) == a < RETRIES

\* a call of get_data(blockchain)
GetDataCall ==
    /\ spc \in {"idle", "returned", "raised"}
    /\ \E c \in ChainArgs : sarg' = c
    /\ spc' = "try" /\ attempt' = 1
    /\ failures' = <<>> /\ sleeps' = <<>> /\ waited' = 0 /\ sresult' = Nil
    /\ UNCHANGED <<doc, written, probeVars, apiVars, handleVars, regVars,
                   fmtVars, fetchVars, lateVars>>

\* one pass of the loop of get_data up to its return, its sleep or the end
\* of the except clause; `except Exception` catches whatever the try raised
GetDataAttempt ==
    /\ spc = "try"
    /\ \E o \in AttemptOutcomes :
          LET exc == IF get_blob_url(o) # None THEN get_blob_url(o)
                     ELSE fetch_state_raises(o)
          IN IF exc = None
             THEN /\ sresult' = Some(dict_get(fetch_state_data(doc), lower(sarg)))
                  /\ spc' = "returned"
                  /\ UNCHANGED <<attempt, failures>>
             ELSE /\ failures' = Append(failures, o)
                  /\ spc' = IF sleep_after(attempt) THEN "sleep"
                            ELSE IF attempt < RETRIES THEN "try"
                            ELSE "raised"
                  /\ attempt' = IF ~sleep_after(attempt) /\ attempt < RETRIES
                                THEN attempt + 1 ELSE attempt
                  /\ UNCHANGED sresult
    /\ UNCHANGED <<doc, written, sarg, sleeps, waited, probeVars, apiVars,
                   handleVars, regVars, fmtVars, fetchVars, lateVars>>

\* asyncio.sleep(_RETRY_DELAY) of the except clause, then the next pass of
\* the loop, or the ValueError after the loop
GetDataSleep ==
    /\ spc = "sleep"
    /\ sleeps' = Append(sleeps, attempt)
    /\ waited' = waited + RETRY_DELAY
    /\ IF attempt < RETRIES
       THEN spc' = "try" /\ attempt' = attempt + 1
       ELSE spc' = "raised" /\ UNCHANGED attempt
    /\ UNCHANGED <<doc, written, sarg, failures, sresult, probeVars, apiVars,
                   handleVars, regVars, fmtVars, fetchVars, lateVars>>

\* the documents the blob may hold at the start
InitEntries ==
    {StateEntry(TRUE, Some("0x10"), Some("0xab"), o) :
        o \in {Nil, Some(""), Some("0x1")}}
    \cup {EmptyObject, NonObject}

InitState ==
    /\ ProbeIdle /\ ApiIdle /\ HandleIdle /\ RegIdle /\ FmtIdle /\ FetchIdle
    /\ LateIdle
    /\ doc \in UNION {[S -> InitEntries] : S \in SUBSET {"ethereum", "solana"}}
    /\ written = Nil /\ spc = "idle" /\ sarg = None
    /\ attempt = 0 /\ failures = <<>> /\ sleeps = <<>> /\ waited = 0
    /\ sresult = Nil

NextState ==
    \/ BlobUpdate
    \/ GetDataCall
    \/ GetDataAttempt
    \/ GetDataSleep

SpecState == InitState /\ [][NextState]_vars

-----------------------------------------------------------------------------
(* SpecFetch: BlockchainDataFetcher.fetch_latest_data for one chain, and   *)
(* fetch_single of the state update around it, for every way the RPC node  *)
(* may answer. An operator that may raise yields Raise or Return(value).   *)

\* highest block number, slot or seqno the node reports
MaxSlot == 3
\* slots below the target that the old-slot search may ask for; 100 in
\* _fetch_solana_data
SlotWindow == 2
\* highest offset drawn by random.randint; the ranges of
\* BLOCK_OFFSET_RANGES are far wider
MaxOffset == 2

Raise == [raised |-> TRUE, value |-> None]
Return(v) == [raised |-> FALSE, value |-> v]

BlockchainData(b, t, o) ==
    [block_id |-> b, transaction_id |-> t, old_block_id |-> o]
EmptyData == BlockchainData("", "", "")

\* max(0, n)
max0(n) == IF n < 0 THEN 0 ELSE n

HexDigit == <<"0", "1", "2", "3", "4", "5", "6", "7", "8", "9",
              "a", "b", "c", "d", "e", "f">>

RECURSIVE hex_digits(_)
hex_digits(n) ==
    IF n < 16 THEN HexDigit[n + 1]
    ELSE hex_digits(n \div 16) \o HexDigit[(n % 16) + 1]

\* hex(n) of Python, n >= 0
hex(n) == "0x" \o hex_digits(n)

except_reraises(r) == r

\* `except Exception as e: ...; return BlockchainData("", "", "")`
except_returns_empty(r) == IF r.raised THEN Return(EmptyData) ELSE r

\* what the node answers to the first request of a chain's fetch
FirstResults(chain) ==
    CASE chain \in {"ethereum", "base"} -> {"error", "null", "no_number", "block"}
      [] chain = "solana" -> {"error", "null", "no_slot", "slot"}
      [] chain = "ton" -> {"error", "invalid", "last_invalid", "ok"}
      [] OTHER -> {"unused"}

\* the transactions of the latest block as the node reports them
TxShapes(chain) ==
    CASE chain \in {"ethereum", "base"} -> {"none", "hash", "no_hash", "str", "other"}
      [] chain = "solana" -> {"none", "hash"}
      [] chain = "ton" -> {"error", "none", "hash", "no_hash"}
      [] OTHER -> {"none"}

\* what the node answers to getBlock of one slot: a block, a null result,
\* the error -32004 "not available", or any other failure left after the
\* retries of _make_rpc_request
SlotOutcomes == {"block", "null", "not_available", "error"}

\* the slots _fetch_solana_data may ask for
SlotsAsked(chain, latest_slot, offset) ==
    IF chain = "solana"
    THEN {latest_slot} \cup
         ((max0(latest_slot - offset) - SlotWindow) .. max0(latest_slot - offset))
    ELSE {}

\* _fetch_evm_data, the first element of "transactions"
tx_hash(shape) == IF shape \in {"hash", "str"} THEN "0xab" ELSE ""

\* _fetch_evm_data; r.number is the integer whose hex string the node
\* reports under "number"
fetch_evm_data(blockchain, r) ==
    except_returns_empty(
        IF r.result # "block" THEN Raise
        ELSE Return(BlockchainData(hex(r.number), tx_hash(r.transactions),
                                   hex(max0(r.number - r.offset)))))

\* _get_block_in_range: `for slot in range(slot_start, slot_end + 1)`, from
\* the slot `slot` on; seen holds the slots asked for so far
RECURSIVE get_block_in_range(_, _, _, _)
get_block_in_range(slots, slot, slot_end, seen) ==
    IF slot > slot_end
    THEN [raised |-> TRUE, slot |-> Nil, examined |-> seen]
    ELSE CASE slots[slot] = "block" ->
                [raised |-> FALSE, slot |-> Some(slot),
                 examined |-> Append(seen, slot)]
           [] slots[slot] = "error" ->
                [raised |-> TRUE, slot |-> Nil, examined |-> Append(seen, slot)]
           [] OTHER ->
                get_block_in_range(slots, slot + 1, slot_end, Append(seen, slot))

\* _fetch_solana_data, the block of the latest slot
latest_block_search(r) ==
    get_block_in_range(r.slots, r.number, r.number, <<>>)

\* _fetch_solana_data, the search of the old slot
old_slot_search(r) ==
    get_block_in_range(r.slots, max0(r.number - r.offset) - SlotWindow,
                       max0(r.number - r.offset), <<>>)

\* _fetch_solana_data gets as far as the search of the old slot
old_slot_searched(r) ==
    r.result = "slot" /\ r.number # 0 /\ ~latest_block_search(r).raised

fetch_solana_data(r) ==
    except_returns_empty(
        CASE r.result = "error" -> Raise
          [] r.result \in {"null", "no_slot"} \/ r.number = 0 -> Return(EmptyData)
          [] latest_block_search(r).raised -> Raise
          [] old_slot_search(r).raised -> Raise
          [] OTHER ->
               Return(BlockchainData(
                   ToString(r.number),
                   IF r.transactions = "hash" THEN "sig" ELSE "",
                   ToString(Val(old_slot_search(r).slot)))))

\* _fetch_ton_data: "workchain:shard:seqno"
ton_block_id(seqno) == "-1:8000:" \o ToString(seqno)

fetch_ton_data(r) ==
    except_returns_empty(
        IF r.result # "ok" \/ r.transactions = "error" THEN Raise
        ELSE Return(BlockchainData(
                 ton_block_id(r.number),
                 IF r.transactions = "hash" THEN "0xab" ELSE "",
                 ton_block_id(max0(r.number - r.offset)))))

fetch_latest_data(blockchain, r) ==
    except_returns_empty(
        CASE blockchain \in {"ethereum", "base"} -> fetch_evm_data(blockchain, r)
          [] blockchain = "solana" -> fetch_solana_data(r)
          [] blockchain = "ton" -> fetch_ton_data(r)
          [] OTHER -> Raise)

StoredEntry(b, t, o) == [block |-> b, tx |-> t, old_block |-> o]
PreviousEntry == StoredEntry("0x1", "0xaa", "0x0")

\* fetch_single, after fetch_latest_data: the entry of the chain
select_entry(data, prev) ==
    LET fallback == IF prev # Nil THEN Val(prev) ELSE StoredEntry("", "", "")
    IN IF data.raised THEN fallback
       ELSE IF data.value.block_id # "" /\ data.value.transaction_id # ""
       THEN StoredEntry(data.value.block_id, data.value.transaction_id,
                        data.value.old_block_id)
       ELSE fallback

\* _collect_blockchain_data.fetch_single: the entry of the chain
fetch_single(blockchain, r, prev) ==
    select_entry(fetch_latest_data(blockchain, r), prev)

FetchChains == {"ethereum", "base", "solana", "ton", "bitcoin", "Solana"}

InitFetch ==
    /\ ProbeIdle /\ ApiIdle /\ HandleIdle /\ RegIdle /\ FmtIdle /\ StateIdle
    /\ LateIdle
    /\ bchain \in FetchChains
    /\ \E res \in FirstResults(bchain), n \in 0 .. MaxSlot,
          t \in TxShapes(bchain), off \in 1 .. MaxOffset :
          \E sl \in [SlotsAsked(bchain, n, off) -> SlotOutcomes] :
             rpc = [result |-> res, number |-> n, transactions |-> t,
                    offset |-> off, slots |-> sl]
    /\ previous_data \in {Nil, Some(PreviousEntry)}
    /\ bpc = "ready"
    /\ bdata = Nil /\ bentry = Nil /\ examined = <<>>

\* fetch_single(blockchain, endpoint) of the state update
FetchSingle ==
    /\ bpc = "ready"
    /\ bdata' = fetch_latest_data(bchain, rpc)
    /\ bentry' = Some(fetch_single(bchain, rpc, previous_data))
    /\ examined' = IF bchain = "solana" /\ old_slot_searched(rpc)
                   THEN old_slot_search(rpc).examined
                   ELSE <<>>
    /\ bpc' = "done"
    /\ UNCHANGED <<bchain, rpc, previous_data, probeVars, apiVars, handleVars,
                   regVars, fmtVars, stateVars, lateVars>>

NextFetch == FetchSingle

SpecFetch == InitFetch /\ [][NextFetch]_vars

-----------------------------------------------------------------------------
(* SpecUpdate: one invocation of StateUpdateManager.update: the region     *)
(* gate, the previous state, the endpoints of the supported chains, one    *)
(* fetch_single per chain, and the write of the collected document.        *)

SUPPORTED_BLOCKCHAINS == {"ethereum", "solana", "ton", "base"}
ALLOWED_PROVIDERS == {"Chainstack"}
ALLOWED_REGIONS == {"fra1"}

Provider(b, n, e) == [blockchain |-> b, name |-> n, http_endpoint |-> e]

\* the providers ENDPOINTS may list, in the order it lists them
ProviderChoices ==
    << Provider("Ethereum", "Chainstack", "e1"),
       Provider("ethereum", "Chainstack", "e2"),
       Provider("solana", "Other", "s1"),
       Provider("solana", "Chainstack", "s2"),
       Provider("ton", "Chainstack", "t1"),
       Provider("base", "Chainstack", "b1"),
       Provider("bnb", "Chainstack", "x1") >>

Listed(S) == SelectSeq(ProviderChoices, LAMBDA p : p \in S)

provider_allowed_any_name(p, found) ==
    /\ lower(p.blockchain) \in SUPPORTED_BLOCKCHAINS
    /\ lower(p.blockchain) \notin DOMAIN found

\* _get_chainstack_endpoints, the test of the loop
provider_allowed(p, found) ==
    /\ lower(p.blockchain) \in SUPPORTED_BLOCKCHAINS
    /\ p.name \in ALLOWED_PROVIDERS
    /\ lower(p.blockchain) \notin DOMAIN found

\* _get_chainstack_endpoints, the loop from provider i on: the endpoints
\* found
RECURSIVE chainstack_loop(_, _, _)
chainstack_loop(provs, i, found) ==
    IF i > Len(provs) THEN found
    ELSE chainstack_loop(provs, i + 1,
            IF provider_allowed(provs[i], found)
            THEN dict_set(found, lower(provs[i].blockchain),
                          provs[i].http_endpoint)
            ELSE found)

\* _get_chainstack_endpoints: the endpoints, or MissingEndpointsError
get_chainstack_endpoints(provs) ==
    LET found == chainstack_loop(provs, 1, <<>>)
        missing_chains == SUPPORTED_BLOCKCHAINS \ DOMAIN found
    IN IF missing_chains # {}
       THEN [raised |-> TRUE,
             value |-> [type |-> "MissingEndpointsError",
                        missing_chains |-> missing_chains]]
       ELSE Return(found)

\* what fetch_latest_data gives fetch_single for a chain
FetchedKinds == {"raised", "empty", "state", "state_without_tx"}
fetched_state(k) ==
    CASE k = "raised" -> Raise
      [] k = "empty" -> Return(EmptyData)
      [] k = "state" -> Return(BlockchainData("0x10", "0xab", "0x1"))
      [] OTHER -> Return(BlockchainData("0x10", "", "0x1"))

\* BlobStorageHandler.update_data: the whole document is put in the blob
update_data(data) == data

InitUpdate ==
    /\ NotUpdIdle
    /\ region \in {"fra1", "iad1"}
    /\ \E S \in SUBSET {ProviderChoices[i] : i \in DOMAIN ProviderChoices} :
          endpoints = Listed(S)
    /\ upc = "start"
    /\ uprev = <<>> /\ chainstack_endpoints = <<>> /\ ufetched = <<>>
    /\ blockchain_data = <<>> /\ stored = Nil /\ uerror = Nil
    /\ uresult = None

\* update: the region gate, then _get_previous_data, which keeps the entry
\* of every supported chain whose get_data returned a non-empty object
UpdateStart ==
    /\ upc = "start"
    /\ IF region \notin ALLOWED_REGIONS
       THEN /\ uresult' = "Region not authorized for state updates"
            /\ upc' = "done"
            /\ UNCHANGED uprev
       ELSE /\ \E S \in SUBSET SUPPORTED_BLOCKCHAINS :
                  uprev' = [c \in S |-> PreviousEntry]
            /\ upc' = "endpoints"
            /\ UNCHANGED uresult
    /\ UNCHANGED <<region, endpoints, chainstack_endpoints, ufetched,
                   blockchain_data, stored, uerror, notUpd>>

\* update: _get_chainstack_endpoints; MissingEndpointsError is logged and
\* raised again
UpdateEndpoints ==
    /\ upc = "endpoints"
    /\ LET r == get_chainstack_endpoints(endpoints)
       IN IF r.raised
          THEN /\ uerror' = Some(r.value)
               /\ upc' = "raised"
               /\ UNCHANGED chainstack_endpoints
          ELSE /\ chainstack_endpoints' = r.value
               /\ upc' = "collect"
               /\ UNCHANGED uerror
    /\ UNCHANGED <<region, endpoints, uprev, ufetched, blockchain_data,
                   stored, uresult, notUpd>>

\* _collect_blockchain_data: fetch_single of one chain, whose node is
\* queried by fetch_latest_data
UpdateFetch(c) ==
    /\ upc = "collect"
    /\ c \in DOMAIN chainstack_endpoints /\ c \notin DOMAIN ufetched
    /\ \E k \in FetchedKinds :
          /\ ufetched' = dict_set(ufetched, c, fetched_state(k))
          /\ blockchain_data' =
                dict_set(blockchain_data, c,
                         select_entry(fetched_state(k), IF c \in DOMAIN uprev
                                         THEN Some(uprev[c]) ELSE Nil))
    /\ UNCHANGED <<region, endpoints, upc, uprev, chainstack_endpoints,
                   stored, uerror, uresult, notUpd>>

\* update, after the gather: the fallback to the whole previous state, the
\* write of the document; an exception of the write is raised again
UpdateWrite ==
    /\ upc = "collect"
    /\ DOMAIN ufetched = DOMAIN chainstack_endpoints
    /\ IF DOMAIN blockchain_data = {} /\ DOMAIN uprev = {}
       THEN /\ uresult' =
                 "No blockchain data collected and no previous data available"
            /\ upc' = "done"
            /\ UNCHANGED <<stored, uerror>>
       ELSE \E written_ok \in BOOLEAN :
               IF written_ok
               THEN /\ stored' = Some(update_data(
                                     IF DOMAIN blockchain_data = {} THEN uprev
                                     ELSE blockchain_data))
                    /\ uresult' = "State updated successfully"
                    /\ upc' = "done"
                    /\ UNCHANGED uerror
               ELSE /\ uerror' = Some([type |-> "Exception",
                                       missing_chains |-> {}])
                    /\ upc' = "raised"
                    /\ UNCHANGED <<stored, uresult>>
    /\ UNCHANGED <<region, endpoints, uprev, chainstack_endpoints, ufetched,
                   blockchain_data, notUpd>>

NextUpdate ==
    \/ UpdateStart
    \/ UpdateEndpoints
    \/ \E c \in SUPPORTED_BLOCKCHAINS : UpdateFetch(c)
    \/ UpdateWrite

SpecUpdate == InitUpdate /\ [][NextUpdate]_vars

-----------------------------------------------------------------------------
(* SpecTiming: one call of measure_http_request_timing, directly or from   *)
(* make_json_rpc_request (common/http_timing.py).                          *)

\* http_timing.MAX_RETRIES
TIMING_MAX_RETRIES == 2
\* http_timing.DEFAULT_RATE_LIMIT_WAIT
DEFAULT_RATE_LIMIT_WAIT == 3

\* what the transport does with a request: a response (its status, and for
\* 200 whether the body has "error" or is no JSON), or an exception
TimingAnswers == {"200", "200_error", "200_bad_json", "204", "429", "500",
                  "Error"}

status_of(o) ==
    CASE o \in {"200", "200_error", "200_bad_json"} -> 200
      [] o = "204" -> 204
      [] o = "429" -> 429
      [] OTHER -> 500

\* the Retry-After header of a 429 response: absent, a number of seconds,
\* or a text int() does not parse
Header(k, n) == [kind |-> k, seconds |-> n]
RetryAfterHeaders ==
    {Header("absent", 0), Header("bad", 0)}
    \cup {Header("seconds", n) : n \in 0 .. MaxRetryAfter}

\* int(response.headers.get("Retry-After", DEFAULT_RATE_LIMIT_WAIT))
rate_limit_wait(h) ==
    IF h.kind = "absent" THEN DEFAULT_RATE_LIMIT_WAIT ELSE h.seconds

backoff_ignores_wait(w, r) == 2 ^ r

\* wait_time * (2 ** retry_count)
backoff(w, r) == w * (2 ^ r)

TimingResult(r, e, o) == [raised |-> r, exc |-> e, response |-> o]

rejects_status_outside_2xx(st) == st < 200 \/ st > 299

\* make_json_rpc_request: `if response.status != 200`
rejects_status(st) == st # 200

\* make_json_rpc_request, after measure_http_request_timing returned the
\* response o
json_rpc_result(o) ==
    CASE rejects_status(status_of(o)) -> TimingResult(TRUE, "ClientResponseError", o)
      [] o = "200_bad_json" -> TimingResult(TRUE, "JSONDecodeError", o)
      [] o = "200_error" -> TimingResult(TRUE, "ValueError", o)
      [] OTHER -> TimingResult(FALSE, None, o)

\* the dict of an HttpTimingCollector: `total` is timing["end"] -
\* timing["start"], `conn` is timing["conn_end"] - timing["conn_start"], each
\* Nil while one of its two keys is missing
Timing(t, c) == [total |-> t, conn |-> c]

\* HttpTimingCollector.reset
reset(t) == Timing(Nil, Nil)

\* the trace hooks during one request that takes d, with connection hooks c
\* (Nil: no connection was created for it); on_request_end fires only when
\* a response arrives
trace_hooks(t, o, d, c) ==
    Timing(IF o \in Exceptions THEN t.total ELSE Some(d),
           IF c = Nil THEN t.conn ELSE c)

\* HttpTimingCollector.get_connection_time
get_connection_time(t) == IF t.conn = Nil THEN 0 ELSE Val(t.conn)

\* HttpTimingCollector.get_total_time
get_total_time(t) == IF t.total = Nil THEN 0 ELSE Val(t.total)

Max(a, b) == IF a >= b THEN a ELSE b

\* HttpTimingCollector.get_response_time
get_response_time(t, exclude_connection_time) ==
    IF exclude_connection_time
    THEN Max(0, get_total_time(t) - get_connection_time(t))
    ELSE get_total_time(t)

\* what one attempt measured of itself: its wall time and the time its own
\* connection establishment took, Nil when it created no connection
Attempt(d, c) == [wall |-> d, conn |-> c]
\* the durations an attempt can have: c within d
AttemptTimes ==
    {Attempt(d, c) : d \in 0 .. MaxLatency, c \in {Nil}} \cup
    {Attempt(d, Some(c)) : d \in 0 .. MaxLatency, c \in 0 .. MaxLatency}

InitTiming ==
    /\ NotTimingIdle
    /\ tcall \in {"measure_http_request_timing", "make_json_rpc_request"}
    /\ tpc = "request" /\ tretry = 0
    /\ tanswers = <<>> /\ theaders = <<>> /\ tsleeps = <<>> /\ tpending = 0
    /\ tresult = Nil
    /\ timing = Timing(Nil, Nil) /\ texclude \in BOOLEAN
    /\ tattempts = <<>> /\ tresponse_time = Nil

\* one pass of the loop of measure_http_request_timing up to its sleep, its
\* raise, or its return and what make_json_rpc_request does with the
\* response
TimingRequest ==
    /\ tpc = "request"
    /\ \E o \in TimingAnswers, h \in RetryAfterHeaders, a \in AttemptTimes :
          /\ o # "429" \/ tretry >= TIMING_MAX_RETRIES - 1 => h = Header("absent", 0)
          /\ a.conn # Nil => Val(a.conn) <= a.wall
          /\ tanswers' = Append(tanswers, o)
          /\ tattempts' = Append(tattempts, a)
          /\ timing' = trace_hooks(reset(timing), o, a.wall, a.conn)
          /\ CASE o = "429" /\ tretry < TIMING_MAX_RETRIES - 1 /\ h.kind # "bad" ->
                    /\ theaders' = Append(theaders, h)
                    /\ tpending' = backoff(rate_limit_wait(h), tretry)
                    /\ tpc' = "sleep"
                    /\ UNCHANGED <<tresult, tresponse_time>>
               [] (o = "Error" \/ (o = "429" /\ h.kind = "bad"))
                      /\ tretry < TIMING_MAX_RETRIES - 1 ->
                    /\ theaders' = IF o = "429" THEN Append(theaders, h)
                                   ELSE theaders
                    /\ tpending' = 2 ^ tretry
                    /\ tpc' = "sleep"
                    /\ UNCHANGED <<tresult, tresponse_time>>
               [] o = "Error" ->
                    /\ tresult' = Some(TimingResult(TRUE, "Error", None))
                    /\ tpc' = "done"
                    /\ UNCHANGED <<theaders, tpending, tresponse_time>>
               [] OTHER ->
                    /\ tresult' = Some(IF tcall = "make_json_rpc_request"
                                       THEN json_rpc_result(o)
                                       ELSE TimingResult(FALSE, None, o))
                    /\ tresponse_time' =
                          IF Val(tresult').raised THEN Nil
                          ELSE Some(get_response_time(timing', texclude))
                    /\ tpc' = "done"
                    /\ UNCHANGED <<theaders, tpending>>
    /\ UNCHANGED <<tcall, tretry, tsleeps, texclude, notTiming>>

\* await asyncio.sleep(...); continue
TimingSleep ==
    /\ tpc = "sleep"
    /\ tsleeps' = Append(tsleeps, tpending)
    /\ tretry' = tretry + 1
    /\ tpc' = "request"
    /\ UNCHANGED <<tcall, tanswers, theaders, tpending, tresult, timing,
                   texclude, tattempts, tresponse_time, notTiming>>

NextTiming ==
    \/ TimingRequest
    \/ TimingSleep

SpecTiming == InitTiming /\ [][NextTiming]_vars

-----------------------------------------------------------------------------
(* SpecJsonRpc: a JSON-RPC call made either by a probe's collect_metric or *)
(* through the timing utility.                                             *)

InitJsonRpc == InitProbe \/ InitTiming

NextJsonRpc ==
    \/ NextProbe
    \/ NextTiming

SpecJsonRpc == InitJsonRpc /\ [][NextJsonRpc]_vars

-----------------------------------------------------------------------------
(* SpecTrigger: one GET request to the trigger of a chain: the token check  *)
(* of do_GET, handle, push_to_grafana and the response. What handle does    *)
(* before the push is Spec above; here it is only its outcome: an exception *)
(* before the collection, or the text of the collected metrics.            *)

GRAFANA_PUSH_MAX_RETRIES == 3
GRAFANA_PUSH_RETRY_DELAY == 1

\* the Authorization header of the request and the two environment
\* variables, Nil when absent
Headers == {Nil, Some("Bearer s3cret"), Some("Bearer wrong"),
            Some("Bearer None"), Some("s3cret")}
Secrets == {Nil, Some("s3cret")}
SkipAuthValues == {Nil, Some("true"), Some("TRUE"), Some("false")}

\* str() of an optional string inside an f-string
str(o) == IF o = Nil THEN "None" ELSE Val(o)

\* validate_token: auth_token == f"Bearer {expected_token}"
validate_token(auth_token, expected_token) ==
    auth_token = Some("Bearer " \o str(expected_token))

\* os.environ.get("SKIP_AUTH", "false").lower() == "true"
skip_auth_set(v) == lower(IF v = Nil THEN "false" ELSE Val(v)) = "true"

\* what handle may raise before the collection: json.loads of ENDPOINTS or
\* the provider filter, and BlockchainState.get_data
HandleErrors == {"config error", "state error"}

\* get_metrics_text: empty when no instance has values, else the lines,
\* which are all zeros when every probe failed
MetricsTexts == {"", "zeros 1", "values 1"}

\* what a POST to Grafana gets: a status, or an exception of the transport
PushAnswers == {"200", "204", "400", "500", "Error"}

\* response.status in (200, 204)
push_succeeded_only_200(a) == a = "200"

push_succeeded(a) == a \in {"200", "204"}

\* not all([url, user, api_key])
push_configured(c) == c.url /\ c.user /\ c.api_key

InitTrigger ==
    /\ NotTrigIdle
    /\ authorization \in Headers
    /\ cron_secret \in Secrets
    /\ skip_auth \in SkipAuthValues
    /\ grafana_config \in [url : BOOLEAN, user : BOOLEAN, api_key : BOOLEAN]
    /\ gpc = "start"
    /\ collected = FALSE
    /\ metrics_text = ""
    /\ push_attempt = 0
    /\ posts = <<>> /\ push_sleeps = <<>>
    /\ handle_result = Nil
    /\ status_code = Nil /\ body = ""

\* do_GET up to run_until_complete(handle())
TriggerAuth ==
    /\ gpc = "start"
    /\ IF ~skip_auth_set(skip_auth) /\ ~validate_token(authorization, cron_secret)
       THEN /\ status_code' = Some(401)
            /\ body' = "Unauthorized"
            /\ gpc' = "responded"
       ELSE /\ gpc' = "handle"
            /\ UNCHANGED <<status_code, body>>
    /\ UNCHANGED <<authorization, cron_secret, skip_auth, grafana_config,
                   collected, metrics_text, push_attempt, posts, push_sleeps,
                   handle_result, notTrig>>

\* handle up to `if metrics_text:`: either an exception before the gather,
\* logged and raised again, or the gather and get_metrics_text
TriggerCollect ==
    /\ gpc = "handle"
    /\ \E raises \in BOOLEAN, e \in HandleErrors, text \in MetricsTexts :
          IF raises
          THEN /\ text = ""
               /\ handle_result' = Some(<<"raised", e>>)
               /\ gpc' = "raised"
               /\ UNCHANGED <<collected, metrics_text>>
          ELSE /\ e = "config error"
               /\ collected' = TRUE
               /\ metrics_text' = text
               /\ gpc' = IF text # "" THEN "push" ELSE "return"
               /\ UNCHANGED handle_result
    /\ UNCHANGED <<authorization, cron_secret, skip_auth, grafana_config,
                   push_attempt, posts, push_sleeps, status_code, body, notTrig>>

\* push_to_grafana up to the loop
PushStart ==
    /\ gpc = "push"
    /\ IF push_configured(grafana_config)
       THEN gpc' = "post" /\ push_attempt' = 1
       ELSE gpc' = "return" /\ UNCHANGED push_attempt
    /\ UNCHANGED <<authorization, cron_secret, skip_auth, grafana_config,
                   collected, metrics_text, posts, push_sleeps, handle_result,
                   status_code, body, notTrig>>

\* one turn of the loop: the POST and what follows it up to the next await
PushPost ==
    /\ gpc = "post"
    /\ \E a \in PushAnswers :
          /\ posts' = Append(posts, a)
          /\ CASE push_succeeded(a) ->
                    gpc' = "return" /\ UNCHANGED push_attempt
               [] a = "Error" /\ push_attempt < GRAFANA_PUSH_MAX_RETRIES ->
                    gpc' = "push_sleep" /\ UNCHANGED push_attempt
               [] a # "Error" /\ ~push_succeeded(a)
                     /\ push_attempt < GRAFANA_PUSH_MAX_RETRIES ->
                    gpc' = "post" /\ push_attempt' = push_attempt + 1
               [] OTHER ->
                    gpc' = "return" /\ UNCHANGED push_attempt
    /\ UNCHANGED <<authorization, cron_secret, skip_auth, grafana_config,
                   collected, metrics_text, push_sleeps, handle_result,
                   status_code, body, notTrig>>

\* await asyncio.sleep(push_retry_delay) of the except clause
PushSleep ==
    /\ gpc = "push_sleep"
    /\ push_sleeps' = Append(push_sleeps, GRAFANA_PUSH_RETRY_DELAY)
    /\ push_attempt' = push_attempt + 1
    /\ gpc' = "post"
    /\ UNCHANGED <<authorization, cron_secret, skip_auth, grafana_config,
                   collected, metrics_text, posts, handle_result,
                   status_code, body, notTrig>>

\* return "done", metrics_text
HandleReturn ==
    /\ gpc = "return"
    /\ handle_result' = Some(<<"done", metrics_text>>)
    /\ gpc' = "returned"
    /\ UNCHANGED <<authorization, cron_secret, skip_auth, grafana_config,
                   collected, metrics_text, push_attempt, posts, push_sleeps,
                   status_code, body, notTrig>>

\* do_GET after handle: 200 with the summary and the text, or 500 with str(e)
TriggerRespond ==
    /\ gpc \in {"returned", "raised"}
    /\ IF gpc = "returned"
       THEN /\ status_code' = Some(200)
            /\ body' = "metrics collection completed\n\nMetrics:\n"
                          \o Val(handle_result)[2]
       ELSE /\ status_code' = Some(500)
            /\ body' = Val(handle_result)[2]
    /\ gpc' = "responded"
    /\ UNCHANGED <<authorization, cron_secret, skip_auth, grafana_config,
                   collected, metrics_text, push_attempt, posts, push_sleeps,
                   handle_result, notTrig>>

NextTrigger ==
    \/ TriggerAuth
    \/ TriggerCollect
    \/ PushStart
    \/ PushPost
    \/ PushSleep
    \/ HandleReturn
    \/ TriggerRespond

SpecTrigger == InitTrigger /\ [][NextTrigger]_vars

-----------------------------------------------------------------------------
(* SpecRace: two BlobStorageHandler.update operations, each by its own      *)
(* handler, on the one blob. Every request of a writer is one action; the   *)
(* store applies a PUT by replacing the document it holds.                  *)

\* BlobConfig.retry_attempts
retry_attempts == 3

Writers == {1, 2}

\* what the store answers to a request: 200/201 with a JSON body, or not
RequestOutcomes == {"ok", "failed"}

WriterSet(f, w, v) == [f EXCEPT ![w] = v]

\* the except clause of update: raise on the last attempt, sleep otherwise
after_failure(a) == IF a = retry_attempts - 1 THEN "raise" ELSE "sleep"

InitRace ==
    /\ NotRaceIdle
    /\ blob \in {initial_data, update(initial_data, "ton", "0x10", "0xab")}
    /\ \E c \in {"ethereum", "solana"} : wchain = <<"ethereum", c>>
    /\ wblock = <<"0x10", "0x11">>
    /\ blob_url \in [Writers -> BOOLEAN]
    /\ wpc = [w \in Writers |-> "start"]
    /\ wattempt = [w \in Writers |-> 0]
    /\ wread = [w \in Writers |-> Nil]
    /\ wfailures = [w \in Writers |-> 0]
    /\ wresult = [w \in Writers |-> None]
    /\ last_put = Nil
    /\ blob_at_start = blob

\* `if not self._blob_url: await self.initialize()`: the PUT of initial_data;
\* it is outside the try, so its failure leaves update at once
RaceStart(w) ==
    /\ wpc[w] = "start"
    /\ IF blob_url[w]
       THEN /\ wpc' = WriterSet(wpc, w, "get")
            /\ UNCHANGED <<blob, blob_url, wfailures, wresult, last_put>>
       ELSE \E o \in RequestOutcomes :
               IF o = "ok"
               THEN /\ blob' = initial_data
                    /\ last_put' = Some([by |-> w, request |-> "initialize",
                                         read |-> initial_data])
                    /\ blob_url' = WriterSet(blob_url, w, TRUE)
                    /\ wpc' = WriterSet(wpc, w, "get")
                    /\ UNCHANGED <<wfailures, wresult>>
               ELSE /\ wfailures' = WriterSet(wfailures, w, wfailures[w] + 1)
                    /\ wresult' = WriterSet(wresult, w, "raised")
                    /\ wpc' = WriterSet(wpc, w, "done")
                    /\ UNCHANGED <<blob, blob_url, last_put>>
    /\ UNCHANGED <<wchain, wblock, wattempt, wread,
                   blob_at_start, notRace>>

\* current_data = await self._make_request("GET", self._blob_url)
RaceGet(w) ==
    /\ wpc[w] = "get"
    /\ \E o \in RequestOutcomes :
          IF o = "ok"
          THEN /\ wread' = WriterSet(wread, w, Some(blob))
               /\ wpc' = WriterSet(wpc, w, "put")
               /\ UNCHANGED <<wfailures, wresult>>
          ELSE /\ wfailures' = WriterSet(wfailures, w, wfailures[w] + 1)
               /\ IF after_failure(wattempt[w]) = "raise"
                  THEN /\ wresult' = WriterSet(wresult, w, "raised")
                       /\ wpc' = WriterSet(wpc, w, "done")
                  ELSE /\ wpc' = WriterSet(wpc, w, "sleep")
                       /\ UNCHANGED wresult
               /\ UNCHANGED wread
    /\ UNCHANGED <<blob, wchain, wblock, blob_url, wattempt, last_put,
                   blob_at_start, notRace>>

\* the two assignments to current_data and the PUT of the whole document
RacePut(w) ==
    /\ wpc[w] = "put"
    /\ \E o \in RequestOutcomes :
          IF o = "ok"
          THEN /\ blob' = update(Val(wread[w]), wchain[w], wblock[w], "0xab")
               /\ last_put' = Some([by |-> w, request |-> "update",
                                    read |-> Val(wread[w])])
               /\ wresult' = WriterSet(wresult, w, "returned")
               /\ wpc' = WriterSet(wpc, w, "done")
               /\ UNCHANGED wfailures
          ELSE /\ wfailures' = WriterSet(wfailures, w, wfailures[w] + 1)
               /\ IF after_failure(wattempt[w]) = "raise"
                  THEN /\ wresult' = WriterSet(wresult, w, "raised")
                       /\ wpc' = WriterSet(wpc, w, "done")
                  ELSE /\ wpc' = WriterSet(wpc, w, "sleep")
                       /\ UNCHANGED wresult
               /\ UNCHANGED <<blob, last_put>>
    /\ UNCHANGED <<wchain, wblock, blob_url, wattempt, wread,
                   blob_at_start, notRace>>

\* await asyncio.sleep(self.config.retry_delay), then the next attempt
RaceSleep(w) ==
    /\ wpc[w] = "sleep"
    /\ wattempt' = WriterSet(wattempt, w, wattempt[w] + 1)
    /\ wpc' = WriterSet(wpc, w, "get")
    /\ UNCHANGED <<blob, wchain, wblock, blob_url, wread, wfailures, wresult,
                   last_put,
                   blob_at_start, notRace>>

NextRace ==
    \/ \E w \in Writers : RaceStart(w)
    \/ \E w \in Writers : RaceGet(w)
    \/ \E w \in Writers : RacePut(w)
    \/ \E w \in Writers : RaceSleep(w)

SpecRace == InitRace /\ [][NextRace]_vars

-----------------------------------------------------------------------------
(* SpecLabels: one MetricLabels object (common/metric_config.py) and any    *)
(* sequence of update_label and add_label calls on it. A label is a record  *)
(* of its key and its value; a member of MetricLabelKey is written as its   *)
(* value, and a key that is no member of the enum as another string.        *)

\* the members of the enum MetricLabelKey, in the order of the constructor
MetricLabelKey == <<"source_region", "target_region", "blockchain", "provider",
                    "api_method", "response_status">>

\* isinstance(key, MetricLabelKey)
isinstance_MetricLabelKey(key) ==
    \E i \in DOMAIN MetricLabelKey : MetricLabelKey[i] = key

\* keys that are no MetricLabelKey: a plain string, which has no attribute
\* `value`, and a member of another enum, which has one
PlainStrings == {"method"}
OtherEnumMembers == {"OtherKey.METHOD"}

\* the keys and the values the calls are made with
LabelKeyArgs ==
    {MetricLabelKey[i] : i \in DOMAIN MetricLabelKey}
        \cup PlainStrings \cup OtherEnumMembers
LabelValueArgs == {"a", "b"}

MetricLabel_any_key(key, value) ==
    [raised |-> None, label |-> [key |-> key, value |-> value]]

\* MetricLabel.__init__: ValueError unless the key is a MetricLabelKey
MetricLabel(key, value) ==
    [raised |-> IF isinstance_MetricLabelKey(key) THEN None ELSE "ValueError",
     label |-> [key |-> key, value |-> value]]

\* MetricLabels.__init__
MetricLabels(src_region, tgt_region, blockchain, provider, api_method, status) ==
    LET args == <<src_region, tgt_region, blockchain, provider, api_method, status>>
    IN [i \in DOMAIN MetricLabelKey |-> MetricLabel(MetricLabelKey[i], args[i]).label]

\* the index of the first label with the key, 0 if there is none
first_with_key(ls, label_name) ==
    IF \E i \in DOMAIN ls : ls[i].key = label_name
    THEN CHOOSE i \in DOMAIN ls :
            /\ ls[i].key = label_name
            /\ \A j \in 1 .. i - 1 : ls[j].key # label_name
    ELSE 0

\* update_label: the first label with the key gets the value; without one
\* the warning is formatted with label_name.value, which a plain string
\* does not have
update_label(ls, label_name, new_value) ==
    LET i == first_with_key(ls, label_name)
    IN IF i # 0
       THEN [raised |-> None, labels |-> [ls EXCEPT ![i].value = new_value]]
       ELSE [raised |-> IF label_name \in PlainStrings THEN "AttributeError"
                        ELSE None,
             labels |-> ls]

\* add_label: update_label for a key the list has, else the append of a new
\* MetricLabel
add_label(ls, label_name, label_value) ==
    IF first_with_key(ls, label_name) # 0
    THEN update_label(ls, label_name, label_value)
    ELSE LET l == MetricLabel(label_name, label_value)
         IN IF l.raised # None
            THEN [raised |-> l.raised, labels |-> ls]
            ELSE [raised |-> None, labels |-> Append(ls, l.label)]

InitLabels ==
    /\ NotLabIdle
    /\ \E p \in {"x", "y"}, m \in {"default", "eth_call"} :
          self_labels = MetricLabels("fra1", "default", "solana", p, m, "pending")
    /\ lab_call = Nil
    /\ lab_raised = None
    /\ lab_before = <<>>

LabelsUpdate ==
    /\ \E k \in LabelKeyArgs, v \in LabelValueArgs :
          LET r == update_label(self_labels, k, v)
          IN /\ self_labels' = r.labels
             /\ lab_raised' = r.raised
             /\ lab_call' = Some([method |-> "update_label", key |-> k, value |-> v])
    /\ lab_before' = self_labels
    /\ UNCHANGED notLab

LabelsAdd ==
    /\ \E k \in LabelKeyArgs, v \in LabelValueArgs :
          LET r == add_label(self_labels, k, v)
          IN /\ self_labels' = r.labels
             /\ lab_raised' = r.raised
             /\ lab_call' = Some([method |-> "add_label", key |-> k, value |-> v])
    /\ lab_before' = self_labels
    /\ UNCHANGED notLab

NextLabels ==
    \/ LabelsUpdate
    \/ LabelsAdd

SpecLabels == InitLabels /\ [][NextLabels]_vars

-----------------------------------------------------------------------------
(* SpecConfig: the objects of one MetricFactory.create_metrics call. A      *)
(* MetricConfig, an EndpointConfig and a MetricLabels are objects with an   *)
(* identity: the heap holds them in the order of their creation, and a      *)
(* reference is the index of the object. Object 1 of the configs is the     *)
(* MetricConfig that collect_metrics hands to create_metrics.               *)

EndpointConfig(main_endpoint, tx_endpoint, ws_endpoint) ==
    [main_endpoint |-> main_endpoint, tx_endpoint |-> tx_endpoint,
     ws_endpoint |-> ws_endpoint]

\* the kwargs of create_metrics that name endpoints
KwargsChoices ==
    {[http_endpoint |-> "http", tx_endpoint |-> tx, ws_endpoint |-> "ws"] :
        tx \in {None, "", "tx"}}

\* the truth value of an optional string
truthy(x) == x \notin {None, ""}

\* the EndpointConfig a MetricConfig refers to
endpoints_of(h, c) == h.endpoints[h.configs[c].endpoints]

\* MetricConfig(..., endpoints=None): `endpoints or EndpointConfig()`
new_config == [configs |-> << [endpoints |-> 1] >>,
               endpoints |-> << EndpointConfig(None, None, None) >>]

\* _setup_endpoint_config: config.endpoints = EndpointConfig(main_endpoint=
\* kwargs.get("http_endpoint"), ws_endpoint=kwargs.get("ws_endpoint"))
setup_endpoint_config(h, c, kw) ==
    [configs |-> [h.configs EXCEPT ![c].endpoints = Len(h.endpoints) + 1],
     endpoints |-> Append(h.endpoints,
                          EndpointConfig(kw.http_endpoint, None, kw.ws_endpoint))]

copy_shallow(h, c) ==
    [h EXCEPT !.configs = Append(@, h.configs[c])]

\* copy.deepcopy(config): a new MetricConfig with a new EndpointConfig of the
\* same fields; the copy is the last object of the configs
deepcopy(h, c) ==
    [configs |-> Append(h.configs, [endpoints |-> Len(h.endpoints) + 1]),
     endpoints |-> Append(h.endpoints, endpoints_of(h, c))]

\* config.endpoints.main_endpoint = v
set_main_endpoint(h, c, v) ==
    [h EXCEPT !.endpoints[h.configs[c].endpoints].main_endpoint = v]

\* _create_single_metric on the heap: a new MetricLabels, and the instance
\* that holds the labels and the config it was given; `raised` when the
\* constructor raises
new_single_metric(ls, cls, prov, c, sd) ==
    IF ~validate_state(cls, sd)
    THEN [label_objs |-> Append(ls, MetricLabels(SourceRegion, TargetRegion,
                                                 Chain, prov, "default", "pending")),
          made |-> <<>>, raised |-> TRUE]
    ELSE [label_objs |-> Append(ls, MetricLabels(SourceRegion, TargetRegion,
                                                 Chain, prov, "default", "pending")),
          made |-> << [cls |-> cls, provider |-> prov, config |-> c,
                       labels |-> Len(ls) + 1] >>,
          raised |-> FALSE]

InitConfig ==
    /\ NotCfgIdle
    /\ cregs \in SeqsUpTo(Classes, MaxMetrics)
    /\ ckwargs \in KwargsChoices
    /\ csd \in [tx : BOOLEAN]
    /\ heap = new_config
    /\ label_objs = <<>>
    /\ made = <<>>
    /\ cpc = "setup"
    /\ creg = 1
    /\ marked = <<>>

\* create_metrics up to its loop (the chain is registered)
ConfigSetup ==
    /\ cpc = "setup"
    /\ heap' = setup_endpoint_config(heap, 1, ckwargs)
    /\ cpc' = "loop"
    /\ UNCHANGED <<cregs, ckwargs, csd, label_objs, made, creg, marked, notCfg>>

\* one turn of the loop of create_metrics: _create_solana_metrics for the
\* landing class, _create_single_metric for every other; the list is
\* returned after the last turn, and an exception of a constructor leaves
\* create_metrics
ConfigCreate ==
    /\ cpc = "loop"
    /\ IF creg > Len(cregs)
       THEN /\ cpc' = "returned"
            /\ UNCHANGED <<heap, label_objs, made, creg, marked>>
       ELSE LET cls == cregs[creg]
                first == new_single_metric(label_objs, cls, "p1", 1, csd)
                twin == cls = "SolanaLandingMetric" /\ ~first.raised
                          /\ truthy(ckwargs.tx_endpoint)
                copied == deepcopy(heap, 1)
                second == new_single_metric(first.label_objs, cls, TxLabel("p1"),
                                            Len(copied.configs), csd)
            IN IF twin
               THEN /\ heap' = set_main_endpoint(copied, Len(copied.configs),
                                                 ckwargs.tx_endpoint)
                    /\ label_objs' = second.label_objs
                    /\ made' = made \o first.made \o second.made
                    /\ marked' = marked \o <<"pending", "pending">>
                    /\ creg' = creg + 1
                    /\ UNCHANGED cpc
               ELSE /\ label_objs' = first.label_objs
                    /\ made' = made \o first.made
                    /\ IF first.raised
                       THEN cpc' = "raised" /\ UNCHANGED <<creg, marked>>
                       ELSE /\ creg' = creg + 1
                            /\ marked' = Append(marked, "pending")
                            /\ UNCHANGED cpc
                    /\ UNCHANGED heap
    /\ UNCHANGED <<cregs, ckwargs, csd, notCfg>>

\* mark_success or mark_failure of one created probe:
\* self.labels.update_label(MetricLabelKey.RESPONSE_STATUS, ...)
ConfigMark(i) ==
    /\ cpc = "returned"
    /\ marked[i] = "pending"
    /\ \E st \in {"success", "failed"} :
          /\ label_objs' = [label_objs EXCEPT ![made[i].labels] =
                               update_label(@, "response_status", st).labels]
          /\ marked' = [marked EXCEPT ![i] = st]
    /\ UNCHANGED <<cregs, ckwargs, csd, heap, made, cpc, creg, notCfg>>

NextConfig ==
    \/ ConfigSetup
    \/ ConfigCreate
    \/ \E i \in DOMAIN made : ConfigMark(i)

SpecConfig == InitConfig /\ [][NextConfig]_vars

-----------------------------------------------------------------------------
(* SpecRpc: one _get_block_in_range call of the fetcher over the slots      *)
(* slot_start .. slot_end, and the _make_rpc_request call it makes for each *)
(* slot, request by request.                                                *)

\* BlockchainDataFetcher._max_retries and ._retry_delay
fetcher_max_retries == 3
fetcher_retry_delay == 5

slot_start == 0
slot_end == SlotWindow

\* what one getBlock request meets: a block, a null result, the error
\* -32004, an error of another code, an error of another code whose message
\* holds the words "Block not available", an exception of the transport
RpcAnswers == {"block", "null", "not_available", "rpc_error", "rpc_error_text",
               "transport"}

\* "error" in data
has_error(a) == a \in {"not_available", "rpc_error", "rpc_error_text"}

\* error.get("code") == -32004
block_not_available_code(a) == a = "not_available"

\* "Block not available" in str(e), for the exception the answer ends in:
\* Exception(f"Block not available: {error}"),
\* Exception(f"RPC error after all retries: {error}"), or the transport's
block_not_available_in_str(a) == a \in {"not_available", "rpc_error_text"}

\* one pass of the loop of _make_rpc_request
rpc_attempt(a, n) ==
    CASE ~has_error(a) /\ a # "transport" -> "return"
      [] has_error(a) /\ block_not_available_code(a) -> "raise"
      [] n < fetcher_max_retries -> "sleep"
      [] OTHER -> "raise"

\* _get_block_in_range, what follows _make_rpc_request for one slot
after_request(a, step) ==
    CASE step = "return" /\ a = "block" -> "found"
      [] step = "return" -> "next"
      [] step = "raise" /\ block_not_available_in_str(a) -> "next"
      [] OTHER -> "raise"

FetcherEntry(slot, n, sl, a) ==
    [slot |-> slot, requests |-> n, sleeps |-> sl, last |-> a]

InitRpc ==
    /\ NotFrpcIdle
    /\ fslot = slot_start
    /\ fattempt = 1
    /\ frequests = 0
    /\ fsleeps = <<>>
    /\ fhistory = <<>>
    /\ fpc = "request"
    /\ ffound = Nil

\* one request of _make_rpc_request and what follows it up to the next
\* await: the sleep before the next attempt, the request for the next slot,
\* or the end of _get_block_in_range
FetcherRequest ==
    /\ fpc = "request"
    /\ \E a \in RpcAnswers :
          LET step == rpc_attempt(a, fattempt)
              entry == FetcherEntry(fslot, frequests + 1, fsleeps, a)
          IN IF step = "sleep"
             THEN /\ frequests' = frequests + 1
                  /\ fpc' = "sleep"
                  /\ UNCHANGED <<fslot, fattempt, fsleeps, fhistory, ffound>>
             ELSE /\ fhistory' = Append(fhistory, entry)
                  /\ CASE after_request(a, step) = "found" ->
                            /\ ffound' = Some(fslot)
                            /\ fpc' = "found"
                            /\ frequests' = frequests + 1
                            /\ UNCHANGED <<fslot, fattempt, fsleeps>>
                       [] after_request(a, step) = "next" /\ fslot < slot_end ->
                            /\ fslot' = fslot + 1
                            /\ fattempt' = 1
                            /\ frequests' = 0
                            /\ fsleeps' = <<>>
                            /\ UNCHANGED <<fpc, ffound>>
                       [] after_request(a, step) = "next" /\ fslot = slot_end ->
                            /\ fpc' = "no_blocks_found"
                            /\ frequests' = frequests + 1
                            /\ UNCHANGED <<fslot, fattempt, fsleeps, ffound>>
                       [] OTHER ->
                            /\ fpc' = "raised"
                            /\ frequests' = frequests + 1
                            /\ UNCHANGED <<fslot, fattempt, fsleeps, ffound>>
    /\ UNCHANGED notFrpc

\* await asyncio.sleep(self._retry_delay); continue
FetcherSleep ==
    /\ fpc = "sleep"
    /\ fsleeps' = Append(fsleeps, fetcher_retry_delay)
    /\ fattempt' = fattempt + 1
    /\ fpc' = "request"
    /\ UNCHANGED <<fslot, frequests, fhistory, ffound, notFrpc>>

NextRpc ==
    \/ FetcherRequest
    \/ FetcherSleep

SpecRpc == InitRpc /\ [][NextRpc]_vars

-----------------------------------------------------------------------------
(* SpecOverlap: two invocations of MetricsHandler.handle on one event loop  *)
(* of one process, each by its own handler for its own chain, over the one  *)
(* class attribute MetricFactory._registry. An action is what an invocation *)
(* does between two awaits; the loop runs the ready invocations in any      *)
(* order.                                                                   *)

\* most classes a handler of SpecOverlap registers
MaxOverlapMetrics == 1

Invocations == {1, 2}

InvSet(f, n, v) == [f EXCEPT ![n] = v]

\* create_metrics of invocation n for its provider, on the registry rg
overlap_create(rg, n) ==
    LET cm == create_metrics(rg, ochain[n], 1, oprovider[n], Val(ostate[n]))
    IN [made |-> [j \in DOMAIN cm.made |->
                     [cm.made[j] EXCEPT !.blockchain = ochain[n]]],
        raised |-> cm.raised]

InitOverlap ==
    /\ NotOvlIdle
    /\ oregistry = <<>>
    /\ ochain \in {<<"solana", "ethereum">>, <<"ethereum", "solana">>}
    /\ ometrics \in [Invocations -> SeqsUpTo(Classes, MaxOverlapMetrics) \ {<<>>}]
    /\ \E tx \in [Invocations -> BOOLEAN] :
          oprovider = [n \in Invocations |->
                          [name |-> ProviderNames[n], tx_endpoint |-> tx[n]]]
    /\ opc = [n \in Invocations |-> "start"]
    /\ ostate = [n \in Invocations |-> Nil]
    /\ oinstances = [n \in Invocations |-> <<>>]
    /\ ooutput = [n \in Invocations |-> <<>>]

\* handle up to its first await: self._instances = [], _registry.clear(),
\* register({self.blockchain: self.metrics}), then the await of get_data
OverlapStart(n) ==
    /\ opc[n] = "start"
    /\ oinstances' = InvSet(oinstances, n, reset_instances(oinstances[n]))
    /\ oregistry' = register(clear(oregistry), ochain[n], ometrics[n])
    /\ opc' = InvSet(opc, n, "get_data")
    /\ UNCHANGED <<ochain, ometrics, oprovider, ostate, ooutput, notOvl>>

\* get_data returns or raises; handle creates the collect_metrics task and
\* awaits the gather of it
OverlapGetData(n) ==
    /\ opc[n] = "get_data"
    /\ \E ok \in BOOLEAN, sd \in [tx : BOOLEAN] :
          IF ok
          THEN /\ ostate' = InvSet(ostate, n, Some(sd))
               /\ opc' = InvSet(opc, n, "gather")
          ELSE /\ sd = [tx |-> FALSE]
               /\ opc' = InvSet(opc, n, "raised")
               /\ UNCHANGED ostate
    /\ UNCHANGED <<oregistry, ochain, ometrics, oprovider, oinstances, ooutput,
                   notOvl>>

\* the collect_metrics task runs up to its await: create_metrics on the
\* registry as it is now; a ValueError ends the task
OverlapCollect(n) ==
    /\ opc[n] = "gather"
    /\ LET cm == overlap_create(oregistry, n)
       IN /\ oinstances' = InvSet(oinstances, n, oinstances[n] \o cm.made)
          /\ opc' = InvSet(opc, n, IF cm.raised THEN "task_raised"
                                   ELSE "awaiting")
    /\ UNCHANGED <<oregistry, ochain, ometrics, oprovider, ostate, ooutput,
                   notOvl>>

\* the probes of a task that did not raise run to their end; the gather of
\* handle (return_exceptions=True) ends and get_metrics_text is built
OverlapFinish(n) ==
    /\ opc[n] \in {"awaiting", "task_raised"}
    /\ \E o \in Outcomes :
          /\ opc[n] = "task_raised" => o = "data"
          /\ LET ran == IF opc[n] = "awaiting"
                        THEN [j \in DOMAIN oinstances[n] |->
                                 collect_metric(oinstances[n][j], o, MaxLatency)]
                        ELSE oinstances[n]
             IN /\ oinstances' = InvSet(oinstances, n, ran)
                /\ ooutput' = InvSet(ooutput, n, get_metrics_text(ran, 1))
    /\ opc' = InvSet(opc, n, "done")
    /\ UNCHANGED <<oregistry, ochain, ometrics, oprovider, ostate, notOvl>>

NextOverlap ==
    \/ \E n \in Invocations : OverlapStart(n)
    \/ \E n \in Invocations : OverlapGetData(n)
    \/ \E n \in Invocations : OverlapCollect(n)
    \/ \E n \in Invocations : OverlapFinish(n)

SpecOverlap == InitOverlap /\ [][NextOverlap]_vars

-----------------------------------------------------------------------------
(* Claims about one probe, checked under SpecProbe *)

Returned == pc = "done"
AllZero(bag) == \A t \in DOMAIN bag : bag[t].value = 0

C4_FailedIsZeroSuccessHasLatency ==
    (Returned /\ kind \in HttpKinds \cup WsBaseKinds) =>
        /\ response_status = "failed" =>
              DOMAIN values # {} /\ AllZero(values)
        /\ response_status = "success" =>
              /\ latency # Nil
              /\ "response_time" \in DOMAIN values
              /\ values["response_time"].value = Val(latency)

\* a block probe that failed on a listen timeout and was cleaned up
C4_Witness ==
    /\ Returned /\ kind = "ws_sol" /\ exit = "TimeoutError"
    /\ response_status = "failed" /\ subscription_id # Nil

\* C6: a JSON-RPC probe with timeout T that has no usable response within T
\* of the start of collect_metric (retries and Retry-After sleeps counted)
\* ends "failed" with zeroed values.
C6_DeadlineOverWholeCollect ==
    (Returned /\ kind = "jsonrpc" /\ clock > TimeoutTicks) =>
        response_status = "failed" /\ AllZero(values)

\* C7: a WebSocket probe whose connect succeeded has, when collect_metric
\* finishes, attempted an unsubscribe and attempted the socket close, the
\* close also when the unsubscribe step failed.
C7_CleanupOnEveryExit ==
    (Returned /\ kind \in WsBaseKinds /\ websocket # None) =>
        unsubCalls >= 1 /\ closeCalls >= 1

IsSubscribeMsg(m) == m \in SubscribeMsgs
SubscribeSent == SelectSeq(sent, IsSubscribeMsg)
InSubscribe == pc \in {"start", "sub_send", "sub_recv", "fb_send", "fb_recv"}
\* subscribe raised because an acknowledgement it read had a null result
SubscribeRejected ==
    /\ ~InSubscribe /\ websocket # None /\ subscription_id = Nil
    /\ Len(acks) = Len(SubscribeSent) /\ Len(acks) >= 1

\* C8: the EVM newHeads probe sends the primary request first; after a null
\* acknowledgement it sends the fallback request exactly once; it is rejected
\* only when both acknowledgements are null; the subscription id is the
\* result of the accepted acknowledgement; at most two requests are sent.
C8_SubscribeFallbackOnce ==
    kind = "ws_evm" =>
        /\ Len(SubscribeSent) <= 2
        /\ Len(SubscribeSent) >= 1 => SubscribeSent[1] = SubscribeMsg("ws_evm")
        /\ Len(SubscribeSent) = 2 =>
              /\ SubscribeSent[2] = FallbackMsg
              /\ Len(acks) >= 1 /\ acks[1] = Nil
        /\ (Len(acks) >= 1 /\ pc # "fb_send") =>
              Len(SubscribeSent) = (IF acks[1] = Nil THEN 2 ELSE 1)
        /\ SubscribeRejected => acks = <<Nil, Nil>>
        /\ subscription_id # Nil =>
              /\ subscription_id = acks[Len(acks)]
              /\ \A i \in 1 .. Len(acks) - 1 : acks[i] = Nil

\* the fallback acknowledgement was the accepted one
C8_Witness ==
    /\ Returned /\ kind = "ws_evm"
    /\ acks = <<Nil, Some(2)>> /\ subscription_id = Some(2)
    /\ sent = <<SubscribeMsg("ws_evm"), FallbackMsg, UnsubscribeMsg("ws_evm")>>

\* C9 as stated: a message that is not a push message, arriving first, is
\* ignored: after that single receive the probe has not failed.
C9_OtherMessageIgnored ==
    (kind \in WsBaseKinds /\ msg = "other" /\ listenRecvs = 1) =>
        response_status # "failed"

\* C9 as amended: listen makes a single receive; a message that is not a
\* push message ends it with no data, which ends a block probe "failed" with
\* a zero value at once and a log probe with its status untouched.
C9_OtherMessageEndsListen ==
    /\ listenRecvs <= 1
    /\ (kind \in WsBaseKinds /\ msg = "other") =>
          /\ pc # "listen"
          /\ response_status = "failed"
          /\ values = update_metric_value(EmptyBag, 0, "response_time", None)
    /\ (kind = "ws_log" /\ msg = "other" /\ Returned) =>
          response_status = "pending" /\ exit = "no_data" /\ values = EmptyBag

\* a block probe that failed on a first message without "params"
C9_Witness ==
    /\ Returned /\ kind = "ws_evm" /\ msg = "other" /\ listenRecvs = 1
    /\ response_status = "failed" /\ closeCalls = 1

-----------------------------------------------------------------------------
(* Claims about one invocation of handle, checked under Spec *)

Finished == hpc = "done"
\* the probes that entered the running set of their collect_metrics
Entered(m) == m.ppc # "created"

\* C1: when handle has returned, every probe that was run concurrently has
\* ended, whatever the other probes' transports raised, with the status and
\* the value bag its own transport outcome alone determines: "success" and
\* the measured latency after data, "failed" and a single zero after an
\* exception; no exception of a probe ends its provider's collect_metrics,
\* and handle raises only when reading the shared state failed, before any
\* probe existed.
C1_ProbeFailureIsIsolated ==
    /\ hpc = "raised" => tasks = <<>> /\ instances = <<>>
    /\ Finished =>
          \A i \in DOMAIN instances :
             LET m == instances[i]
             IN Entered(m) =>
                   /\ m.ppc = "done"
                   /\ tasks[m.owner] = "done"
                   /\ m.outcome = "data" =>
                         /\ m.response_status = "success"
                         /\ m.values = [t \in {"response_time"} |->
                                           MetricValue(MaxLatency, None)]
                   /\ m.outcome \in Exceptions =>
                         /\ m.response_status = "failed"
                         /\ m.values = [t \in {"response_time"} |->
                                           MetricValue(0, None)]

\* handle has returned; a probe's transport raised and two other probes, one
\* of the same provider and one of another, succeeded
C1_Witness ==
    /\ Finished
    /\ \E i, j, k \in DOMAIN instances :
          /\ instances[i].outcome = "Error"
          /\ instances[j].owner = instances[i].owner
          /\ instances[j].response_status = "success"
          /\ instances[k].owner # instances[i].owner
          /\ instances[k].response_status = "success"

\* C2: when handle has returned, every registration whose validate_state
\* accepts the reference state has, for every provider, a probe that was
\* constructed and collected, even if another registration of the handler
\* failed validation.
C2_ConstructionFailureIsLocal ==
    Finished =>
       \A pi \in DOMAIN providers, reg \in DOMAIN metrics :
          validate_state(metrics[reg], state_data) =>
             \E i \in DOMAIN instances :
                /\ instances[i].owner = pi
                /\ instances[i].reg = reg
                /\ instances[i].ppc = "done"

InstancesOf(pi, reg) ==
    {i \in DOMAIN instances : instances[i].owner = pi /\ instances[i].reg = reg}

\* C10: whenever create_metrics has returned for a provider, a registered
\* SolanaLandingMetric has exactly two instances if the provider has a
\* tx_endpoint, labelled "<provider>" and "<provider>_tx" with the same
\* source region, target region and blockchain, and exactly one instance,
\* labelled "<provider>", if it has none; every other registration has exactly
\* one instance, labelled "<provider>".
C10_LandingTwinsElseOne ==
    \A pi \in DOMAIN tasks, reg \in DOMAIN metrics :
       tasks[pi] \in {"awaiting", "done"} =>
          LET I == InstancesOf(pi, reg)
              name == providers[pi].name
          IN /\ \A i \in I : /\ instances[i].source_region = SourceRegion
                             /\ instances[i].target_region = TargetRegion
                             /\ instances[i].blockchain = Chain
                             /\ instances[i].cls = metrics[reg]
             /\ IF metrics[reg] = "SolanaLandingMetric" /\ providers[pi].tx_endpoint
                THEN /\ Cardinality(I) = 2
                     /\ {instances[i].provider : i \in I} = {name, TxLabel(name)}
                ELSE /\ Cardinality(I) = 1
                     /\ {instances[i].provider : i \in I} = {name}

\* create_metrics has returned for a provider with a tx_endpoint and for one
\* without, with a landing probe and another probe type registered
C10_Witness ==
    \E pi, pj \in DOMAIN tasks, reg, other \in DOMAIN metrics :
       /\ tasks[pi] = "awaiting" /\ tasks[pj] = "awaiting"
       /\ providers[pi].tx_endpoint /\ ~providers[pj].tx_endpoint
       /\ metrics[reg] = "SolanaLandingMetric"
       /\ metrics[other] # "SolanaLandingMetric"
       /\ Cardinality(InstancesOf(pi, reg)) = 2
       /\ Cardinality(InstancesOf(pj, reg)) = 1
       /\ Cardinality(InstancesOf(pi, other)) = 1

\* C11: of the two landing probes of a provider with a tx_endpoint, the one
\* labelled "<provider>" has sent its transaction to the provider's http
\* endpoint and the one labelled "<provider>_tx" to its tx endpoint.
C11_TwinsUseTheirOwnEndpoint ==
    \A i \in DOMAIN instances :
       LET m == instances[i]
           name == providers[m.owner].name
       IN (m.cls = "SolanaLandingMetric" /\ m.ppc = "done"
              /\ providers[m.owner].tx_endpoint) =>
             /\ m.provider = name => m.sent_to = "http"
             /\ m.provider = TxLabel(name) => m.sent_to = "tx"

\* the metric_type tag of a line of the text
LineMetricType(line) == line[Len(line) - 6]

LinesOf(m, value_type) ==
    {k \in DOMAIN output : /\ output[k].src = Src(m)
                           /\ LineMetricType(output[k].line) = value_type}

\* C13: the text of an invocation that has returned contains exactly one
\* line for every value entry of every probe created in that invocation,
\* and every line belongs to such an entry: a probe with an empty bag has
\* no line, and neither has a probe left by an earlier invocation.
C13_OneLinePerEntryOfThisInvocation ==
    Finished =>
       /\ \A i \in DOMAIN instances :
             \A t \in DOMAIN instances[i].values :
                Cardinality(LinesOf(instances[i], t)) = 1
       /\ \A k \in DOMAIN output :
             /\ output[k].src.reg \in DOMAIN metrics
             /\ \E i \in DOMAIN instances :
                   /\ output[k].src = Src(instances[i])
                   /\ LineMetricType(output[k].line) \in DOMAIN instances[i].values

\* a text with the line of a failed and the line of a successful probe of
\* two providers
C13_Witness ==
    /\ Finished
    /\ \E j, k \in DOMAIN instances :
          /\ instances[j].response_status = "failed"
          /\ instances[k].response_status = "success"
          /\ instances[j].owner # instances[k].owner
          /\ Cardinality(LinesOf(instances[j], "response_time")) = 1
          /\ Cardinality(LinesOf(instances[k], "response_time")) = 1
          /\ Len(output) = Len(instances)

\* C16: when BlockchainState.get_data has failed after its retries, the
\* invocation is not aborted: handle does not raise, it goes on to build the
\* probes without a reference state and to collect them.
C16_StateReadFailureDoesNotAbort ==
    hpc # "raised"

-----------------------------------------------------------------------------
(* Claims about the registry, checked under SpecRegistry *)

\* C12: after the clear and register of an invocation of handle, whatever the
\* registry held before, it holds exactly the handler's chain mapped to
\* exactly the handler's metric list, and create_metrics builds for a
\* provider the probes that list asks for and no more; a register call
\* without a clear appends to what the chain already had.
C12_RegistryRebuiltPerInvocation ==
    /\ regOp = "handle" =>
          /\ DOMAIN registry = {rchain}
          /\ registry[rchain] = rmetrics
          /\ \A tx \in BOOLEAN, sd \in [tx : BOOLEAN] :
                LET prov == [name |-> "p1", tx_endpoint |-> tx]
                    cm == create_metrics(registry, rchain, 1, prov, sd)
                IN ~cm.raised => Len(cm.made) = ProbesOf(rmetrics, prov)
    /\ regOp = "register" =>
          /\ Len(registry[rchain]) = prevLen + Len(rmetrics)
          /\ DOMAIN registry = prevKeys \cup {rchain}

\* an invocation for a chain that already had as many registrations as a
\* handler can have, in a registry that also held the other chain
C12_Witness ==
    /\ regOp = "handle"
    /\ prevKeys = Chains /\ prevLen = MaxMetrics
    /\ Len(rmetrics) = MaxMetrics

-----------------------------------------------------------------------------
(* Claims about the text of a metric, checked under SpecFormat *)

\* ",<key>=<value>" for each label, in the order of the list
RECURSIVE TagPieces(_)
TagPieces(labels) ==
    IF labels = <<>> THEN <<>>
    ELSE <<",", labels[1][1], "=", labels[1][2]>> \o TagPieces(Tail(labels))

\* "<name>,<labels>,metric_type=<t> value=<v> <T>"
ExpectedLine(t) ==
    <<fname>> \o TagPieces(flabels)
        \o <<",", "metric_type", "=", t, " ", "value", "=",
             ToString(fvalues[t].value), " ", ToString(Val(ftime))>>

\* C14: every line of the text is the metric name, the labels of the metric
\* as key=value in the order of the label list, the metric_type tag naming
\* the entry, " value=" and the entry's value, and the one timestamp of the
\* invocation; there is one such line per entry. The metric named
\* response_latency_seconds with the labels blockchain=solana, provider=x
\* and the single entry response_time gives exactly the line of the example.
C14_LineFormat ==
    ftime # Nil =>
       /\ Len(ftext) = Cardinality(DOMAIN fvalues)
       /\ \A t \in DOMAIN fvalues : \E k \in DOMAIN ftext : ftext[k] = ExpectedLine(t)
       /\ (/\ flabels = << <<"blockchain", "solana">>, <<"provider", "x">> >>
           /\ DOMAIN fvalues = {"response_time"}) =>
             ftext = << <<"response_latency_seconds", ",",
                          "blockchain", "=", "solana", ",",
                          "provider", "=", "x", ",",
                          "metric_type", "=", "response_time", " ",
                          "value", "=", ToString(fvalues["response_time"].value),
                          " ", ToString(Val(ftime))>> >>

\* the text of the example's metric
C14_Witness ==
    /\ ftime # Nil
    /\ flabels = << <<"blockchain", "solana">>, <<"provider", "x">> >>
    /\ DOMAIN fvalues = {"response_time"}
    /\ fvalues["response_time"].value = 1
    /\ Len(ftext) = 1

-----------------------------------------------------------------------------
(* Claims about the state document, checked under SpecState *)

UpTo(n) == [i \in 1 .. n |-> i]

\* C15: get_data makes at most 3 attempts; it returns at the first attempt
\* that succeeds, every attempt before it having failed; it sleeps the fixed
\* delay after each failed attempt except the third; after the third
\* failure it raises; whatever failed in an attempt (the list answered
\* non-200, no blob, the fetch answered non-200, a malformed document, the
\* network) counts as one failed attempt.
C15_AtMostThreeAttempts ==
    LET n == Len(failures) IN
    /\ attempt <= RETRIES /\ n <= RETRIES
    /\ waited = Len(sleeps) * RETRY_DELAY
    /\ spc \in {"try", "returned"} =>
          n = attempt - 1 /\ sleeps = UpTo(n)
    /\ spc = "sleep" => n = attempt /\ n < RETRIES /\ sleeps = UpTo(n - 1)
    /\ spc = "raised" => n = RETRIES /\ sleeps = UpTo(RETRIES - 1)
    /\ spc = "returned" <=> sresult # Nil

C15_Witness ==
    /\ spc = "raised"
    /\ failures = <<"list_non200", "blob_missing", "malformed">>
    /\ sleeps = <<1, 2>>

\* C18: get_data(chain) returns the entry the document holds under the
\* lower-cased chain name, the empty object if it holds none; an entry that
\* is an object without an old-block field comes back with that field "" and
\* its block and tx as stored.
C18_EntryOfLowerCasedChain ==
    spc = "returned" =>
       LET r == Val(sresult)
           k == IF sarg = "Ethereum" THEN "ethereum" ELSE sarg
       IN IF k \notin DOMAIN doc
          THEN r = EmptyObject
          ELSE /\ r.dict = doc[k].dict
               /\ r.block = doc[k].block /\ r.tx = doc[k].tx
               /\ r.old_block =
                     IF doc[k].dict /\ doc[k].old_block = Nil THEN Some("")
                     ELSE doc[k].old_block

C18_Witness ==
    /\ spc = "returned" /\ sarg = "Ethereum"
    /\ "ethereum" \in DOMAIN doc /\ "Ethereum" \notin DOMAIN doc
    /\ doc["ethereum"] = StateEntry(TRUE, Some("0x10"), Some("0xab"), Nil)
    /\ Val(sresult) = StateEntry(TRUE, Some("0x10"), Some("0xab"), Some(""))

\* C17: when a state with a block id, a transaction id and an old block id
\* has been written for a chain through BlobStorageHandler.update and
\* get_data then returns for that chain, the returned entry holds the three
\* values that were written.
C17_RoundTrip ==
    (spc = "returned" /\ written # Nil /\ sarg = Val(written).blockchain) =>
       /\ Val(sresult).block = Some(Val(written).block)
       /\ Val(sresult).tx = Some(Val(written).tx)
       /\ Val(sresult).old_block = Some(Val(written).old_block)

-----------------------------------------------------------------------------
(* Claims about the fetch of a chain's state, checked under SpecFetch *)

TargetSlot == max0(rpc.number - rpc.offset)
Window == (TargetSlot - SlotWindow) .. TargetSlot
ExistingSlots == {s \in Window : rpc.slots[s] = "block"}
HighestOf(S) == CHOOSE s \in S : \A x \in S : x <= s

\* C19: fetch_latest_data never raises, whatever the chain name and whatever
\* the node answers; for a chain it does not support, for a first request
\* that fails or has a null result, and for an error on a later request it
\* returns the state with block id, transaction id and old block id all "";
\* a state with an empty block id is empty as a whole; fetch_single gives
\* the chain an entry in every case.
C19_FetchNeverRaises ==
    bpc = "done" =>
       /\ ~bdata.raised
       /\ bchain \notin {"ethereum", "base", "solana", "ton"} =>
             bdata.value = EmptyData
       /\ rpc.result \in {"error", "null"} => bdata.value = EmptyData
       /\ (\E i \in DOMAIN examined : rpc.slots[examined[i]] = "error") =>
             bdata.value = EmptyData
       /\ (bchain = "ton" /\ rpc.transactions = "error") =>
             bdata.value = EmptyData
       /\ bdata.value.block_id = "" => bdata.value = EmptyData
       /\ bentry # Nil
       /\ (bdata.value = EmptyData /\ previous_data = Nil) =>
             bentry = Some(StoredEntry("", "", ""))

C19_Witness ==
    /\ bpc = "done" /\ bchain = "solana"
    /\ rpc.result = "slot" /\ rpc.slots[rpc.number] = "block"
    /\ \E i \in DOMAIN examined : rpc.slots[examined[i]] = "error"
    /\ bdata = Return(EmptyData)
    /\ bentry = Some(PreviousEntry)

\* C20: the search of the old slot asks first for the target slot and then
\* for the slots below it, one by one, within the window; the old block id
\* is the first slot found to exist, the existing slot closest to the
\* target; if no slot of the window exists the state is empty.
C20_OldSlotSearchDownward ==
    (bpc = "done" /\ bchain = "solana" /\ examined # <<>>) =>
       /\ examined[1] = TargetSlot
       /\ \A i \in 2 .. Len(examined) : examined[i] = examined[i - 1] - 1
       /\ \A i \in DOMAIN examined : examined[i] \in Window
       /\ bdata.value # EmptyData =>
             bdata.value.old_block_id = ToString(HighestOf(ExistingSlots))
       /\ ExistingSlots = {} => bdata.value = EmptyData

\* C32: the old reference point of a fetched state is max(0, head - offset)
\* for an EVM chain and for TON, and for Solana an existing slot of the
\* window that ends at that target; it is never ahead of the head and never
\* negative, and no slot below 0 is ever asked for.
C32_OldPointBehindHeadNeverNegative ==
    (bpc = "done" /\ bdata.value # EmptyData) =>
       /\ bchain \in {"ethereum", "base"} =>
             bdata.value.old_block_id = hex(TargetSlot)
       /\ bchain = "ton" => bdata.value.old_block_id = ton_block_id(TargetSlot)
       /\ bchain = "solana" =>
             \E sl \in ExistingSlots :
                /\ bdata.value.old_block_id = ToString(sl)
                /\ 0 <= sl /\ sl <= rpc.number
       /\ TargetSlot <= rpc.number
       /\ \A i \in DOMAIN examined : examined[i] >= 0


-----------------------------------------------------------------------------
(* Claims about the state update, checked under SpecUpdate *)

FreshIsEmpty(c) == ufetched[c].raised \/ ufetched[c].value = EmptyData

\* C21: in the document the state update writes, a chain whose freshly
\* fetched state is not empty has that state; a chain whose fetched state
\* is empty and that has a previous state has the previous state; a chain
\* whose fetched state is empty and that has no previous state is not in
\* the document.
C21_FallbackPolicy ==
    (upc = "done" /\ stored # Nil) =>
       \A c \in DOMAIN ufetched :
          IF ~FreshIsEmpty(c)
          THEN /\ c \in DOMAIN Val(stored)
               /\ Val(stored)[c] = StoredEntry(ufetched[c].value.block_id,
                                               ufetched[c].value.transaction_id,
                                               ufetched[c].value.old_block_id)
          ELSE IF c \in DOMAIN uprev
          THEN c \in DOMAIN Val(stored) /\ Val(stored)[c] = uprev[c]
          ELSE c \notin DOMAIN Val(stored)

\* the supported chains without an endpoint of an allowed provider
MissingChains ==
    {c \in SUPPORTED_BLOCKCHAINS :
        ~\E i \in DOMAIN endpoints :
            /\ endpoints[i].name = "Chainstack"
            /\ endpoints[i].blockchain \in
                  {c} \cup (IF c = "ethereum" THEN {"Ethereum"} ELSE {})}

UpdateEnded == upc \in {"done", "raised"}

-----------------------------------------------------------------------------
(* Claims about the timing utility, checked under SpecTiming *)

RECURSIVE SeqSum(_)
SeqSum(q) == IF q = <<>> THEN 0 ELSE q[1] + SeqSum(Tail(q))

DeclaredSeconds == [i \in DOMAIN theaders |-> theaders[i].seconds]
LastAnswer == tanswers[Len(tanswers)]

\* the transport answers 429 with a Retry-After number to each of the first
\* N-1 requests and 200 to the Nth
RateLimitedThenOk ==
    /\ \A i \in DOMAIN tanswers :
          tanswers[i] = IF i < TIMING_MAX_RETRIES THEN "429" ELSE "200"
    /\ \A i \in DOMAIN theaders : theaders[i].kind = "seconds"

\* C22: against a transport that answers 429 with a Retry-After value on the
\* first N-1 of the N allowed attempts and 200 on the last, the call ends
\* only after exactly N requests, has then slept at least the sum of the
\* declared Retry-After values, and returns the 200 response; no call sends
\* more than N requests.
C22_RetryAfterHonoured ==
    /\ Len(tanswers) <= TIMING_MAX_RETRIES
    /\ RateLimitedThenOk =>
          IF tpc = "done"
          THEN /\ Len(tanswers) = TIMING_MAX_RETRIES
               /\ SeqSum(tsleeps) >= SeqSum(DeclaredSeconds)
               /\ Len(tsleeps) = TIMING_MAX_RETRIES - 1
               /\ tresult = Some(TimingResult(FALSE, None, "200"))
          ELSE Len(tanswers) < TIMING_MAX_RETRIES

C22_Witness ==
    /\ tpc = "done"
    /\ tanswers = <<"429", "200">>
    /\ theaders = <<Header("seconds", 2)>>
    /\ tsleeps = <<2>>
    /\ tresult = Some(TimingResult(FALSE, None, "200"))

\* C23 as stated: a request is sent again only after a 429 response; a
\* response with any other status ends the call after one request and no
\* sleep; a 429 on the last allowed attempt is returned; and
\* make_json_rpc_request raises for every status other than 200.
C23_RetriesOnlyOn429 ==
    /\ \A i \in 1 .. Len(tanswers) - 1 : tanswers[i] = "429"
    /\ (tanswers # <<>> /\ tanswers[1] \notin {"429", "Error"}) =>
          tpc = "done" /\ Len(tanswers) = 1 /\ tsleeps = <<>>
    /\ (tpc = "done" /\ LastAnswer = "429") =>
          /\ Len(tanswers) = TIMING_MAX_RETRIES
          /\ Val(tresult).response = "429"
    /\ (tpc = "done" /\ tcall = "make_json_rpc_request"
           /\ LastAnswer # "Error" /\ status_of(LastAnswer) # 200) =>
          Val(tresult).raised

Returns(o) == tresult = Some(TimingResult(FALSE, None, o))

\* C23 as amended: a request is sent again only after a 429 response or
\* after the request raised; a response with any status other than 429 ends
\* the call with the request that got it, without a sleep after it, and as
\* the first answer after exactly one request and no sleep at all; a 429 on
\* the last allowed attempt is returned by measure_http_request_timing; an
\* exception on the last allowed attempt is raised; make_json_rpc_request
\* raises ClientResponseError for every status other than 200.
C23_RetriesOn429OrException ==
    /\ \A i \in 1 .. Len(tanswers) - 1 : tanswers[i] \in {"429", "Error"}
    /\ Len(tsleeps) <= Len(tanswers)
    /\ (tanswers # <<>> /\ LastAnswer \notin {"429", "Error"}) =>
          /\ tpc = "done" /\ Len(tsleeps) = Len(tanswers) - 1
          /\ tcall = "measure_http_request_timing" => Returns(LastAnswer)
    /\ (tanswers # <<>> /\ tanswers[1] \notin {"429", "Error"}) =>
          tpc = "done" /\ Len(tanswers) = 1 /\ tsleeps = <<>>
    /\ (tpc = "done" /\ LastAnswer = "429") =>
          /\ Len(tanswers) = TIMING_MAX_RETRIES
          /\ tcall = "measure_http_request_timing" => Returns("429")
    /\ (tpc = "done" /\ LastAnswer = "Error") =>
          /\ Len(tanswers) = TIMING_MAX_RETRIES
          /\ tresult = Some(TimingResult(TRUE, "Error", None))
    /\ (tpc = "done" /\ tcall = "make_json_rpc_request"
           /\ LastAnswer # "Error" /\ status_of(LastAnswer) # 200) =>
          tresult = Some(TimingResult(TRUE, "ClientResponseError", LastAnswer))

C23_Witness ==
    /\ tpc = "done" /\ tcall = "make_json_rpc_request"
    /\ tanswers = <<"Error", "204">>
    /\ tsleeps = <<1>>
    /\ tresult = Some(TimingResult(TRUE, "ClientResponseError", "204"))

-----------------------------------------------------------------------------
(* Claims about JSON-RPC calls, checked under SpecJsonRpc *)

\* C24: a response with status 200 whose body has an "error" field is a
\* failed call: make_json_rpc_request raises ValueError for it, and a
\* JSON-RPC probe whose last response it was returns from collect_metric
\* with the status "failed" and every value 0, never "success".
C24_ErrorFieldFailsTheCall ==
    /\ (tpc = "done" /\ tcall = "make_json_rpc_request"
           /\ LastAnswer = "200_error") =>
          tresult = Some(TimingResult(TRUE, "ValueError", "200_error"))
    /\ (kind = "jsonrpc" /\ Returned /\ last_response = "200_error") =>
          /\ response_status = "failed"
          /\ DOMAIN values # {} /\ AllZero(values)
          /\ latency = Nil

C24_Witness ==
    /\ kind = "jsonrpc" /\ Returned /\ last_response = "200_error"
    /\ requests = 2
    /\ response_status = "failed"
    /\ values = [t \in {"response_time"} |-> MetricValue(0, None)]

-----------------------------------------------------------------------------
(* Claims about the trigger and the push, checked under SpecTrigger *)

PushSuccess(a) == a \in {"200", "204"}

PushEnded == collected /\ gpc \in {"return", "returned", "responded"}

\* C25: push_to_grafana makes at most push_retries POSTs and none after the
\* first that got 200 or 204; it never raises, so once the collection ran
\* handle returns ("done", metrics_text) whatever the POSTs got; it gives up
\* only after push_retries failed POSTs; and it makes no POST at all when
\* the url, the user or the api key is unset or the metrics text is empty.
C25_PushBoundedAndSilent ==
    /\ Len(posts) <= GRAFANA_PUSH_MAX_RETRIES
    /\ \A i \in 1 .. Len(posts) - 1 : ~PushSuccess(posts[i])
    /\ collected =>
          /\ gpc # "raised"
          /\ handle_result \in {Nil, Some(<<"done", metrics_text>>)}
    /\ (collected /\ gpc \in {"returned", "responded"}) =>
          handle_result = Some(<<"done", metrics_text>>)
    /\ (PushEnded /\ posts # <<>> /\ ~PushSuccess(posts[Len(posts)])) =>
          Len(posts) = GRAFANA_PUSH_MAX_RETRIES
    /\ (~grafana_config.url \/ ~grafana_config.user \/ ~grafana_config.api_key
           \/ metrics_text = "") =>
          posts = <<>>

C25_Witness ==
    /\ gpc = "responded"
    /\ posts = <<"Error", "500", "Error">>
    /\ push_sleeps = <<GRAFANA_PUSH_RETRY_DELAY>>
    /\ handle_result = Some(<<"done", "zeros 1">>)

\* the header is "Bearer " followed by the configured secret
MatchesBearerSecret ==
    cron_secret # Nil /\ authorization = Some("Bearer " \o Val(cron_secret))

\* C26: a request whose Authorization header does not match the bearer
\* secret, the bypass flag not being set, is answered 401 and starts no
\* collection; a request whose collection ran is answered 200, whatever the
\* probes and the push did; 500 is answered, with the text of the error,
\* exactly when handle raised.
C26_TriggerResponses ==
    /\ (gpc # "start" /\ ~skip_auth_set(skip_auth) /\ ~MatchesBearerSecret) =>
          /\ gpc = "responded" /\ status_code = Some(401)
          /\ ~collected /\ handle_result = Nil /\ posts = <<>>
    /\ (gpc = "responded" /\ collected) => status_code = Some(200)
    /\ status_code = Some(500) <=>
          /\ gpc = "responded"
          /\ handle_result # Nil /\ Val(handle_result)[1] = "raised"
    /\ status_code = Some(500) => body = Val(handle_result)[2]

-----------------------------------------------------------------------------
(* Claims about two interleaved updates of the blob, checked under SpecRace *)

BothDone == \A w \in Writers : wpc[w] = "done"

Other(w) == CHOOSE v \in Writers : v # w

WrittenEntry(w) == StateEntry(TRUE, Some(wblock[w]), Some("0xab"), Nil)

\* C28: when two update operations interleave, a writer fails only when its
\* own requests failed (the initialize PUT, or a request of each of its
\* retry_attempts attempts) and returns when its own PUT was applied; after
\* both have ended, the stored document is what the last applied PUT sent:
\* for an update PUT, the writer's entry under its chain and, under every
\* other key but "updated_at", what that writer had read, whatever the other
\* writer put in between.
C28_LastPutWins ==
    /\ \A w \in Writers :
          /\ wresult[w] = "raised" =>
                \/ wfailures[w] = 1 /\ ~blob_url[w]
                \/ wfailures[w] = retry_attempts
          /\ (wpc[w] = "done" /\ wfailures[w] = 0) => wresult[w] = "returned"
    /\ (BothDone /\ last_put # Nil) =>
          LET p == Val(last_put)
          IN IF p.request = "initialize"
             THEN blob = initial_data
             ELSE /\ wresult[p.by] = "returned"
                  /\ DOMAIN blob = DOMAIN p.read \cup {"updated_at"}
                  /\ blob[wchain[p.by]] = WrittenEntry(p.by)
                  /\ \A k \in DOMAIN p.read \ {wchain[p.by], "updated_at"} :
                        blob[k] = p.read[k]

\* both writers returned, writer 1's PUT was applied before writer 2's, and
\* the stored document has writer 2's entry and not writer 1's
C28_Witness ==
    /\ BothDone
    /\ wresult = <<"returned", "returned">>
    /\ wchain = <<"ethereum", "solana">>
    /\ Val(last_put).by = 2
    /\ blob["solana"] = WrittenEntry(2)
    /\ blob["ethereum"] # WrittenEntry(1)
    /\ blob["ethereum"] = Val(wread[2])["ethereum"]

-----------------------------------------------------------------------------
(* Claims about the label set, checked under SpecLabels *)

KeysOf(ls) == [i \in DOMAIN ls |-> ls[i].key]

KeyAbsent(ls, k) == \A i \in DOMAIN ls : ls[i].key # k

\* the list with the value of the label under k replaced
Replaced(ls, k, v) ==
    [i \in DOMAIN ls |-> IF ls[i].key = k THEN [ls[i] EXCEPT !.value = v] ELSE ls[i]]

\* every key once, no fewer labels than before the last call, the six
\* labels of the constructor first and in their order
LabelsWellFormed ==
    /\ \A i, j \in DOMAIN self_labels :
          self_labels[i].key = self_labels[j].key => i = j
    /\ Len(self_labels) >= Len(lab_before)
    /\ Len(self_labels) >= Len(MetricLabelKey)
    /\ SubSeq(KeysOf(self_labels), 1, Len(MetricLabelKey)) = MetricLabelKey

-----------------------------------------------------------------------------
(* Claims about the objects of create_metrics, checked under SpecConfig *)

IsTwin(i) == made[i].provider = TxLabel("p1")

StatusOf(i) == label_objs[made[i].labels][6].value

\* C30: from the start of the loop of create_metrics on, the config object
\* handed to create_metrics has the http endpoint as its main_endpoint;
\* every probe but a tx twin holds that object, and a tx twin holds a config
\* and an EndpointConfig of its own whose main_endpoint is the tx endpoint;
\* no two probes hold the same label set, and the status of a probe's
\* labels is the one its own mark set, "pending" before it.
C30_TwinCopyLeavesSharedConfig ==
    cpc \in {"loop", "returned", "raised"} =>
        /\ endpoints_of(heap, 1).main_endpoint = ckwargs.http_endpoint
        /\ \A i \in DOMAIN made :
              IF IsTwin(i)
              THEN /\ made[i].config # 1
                   /\ heap.configs[made[i].config].endpoints # heap.configs[1].endpoints
                   /\ endpoints_of(heap, made[i].config).main_endpoint
                         = ckwargs.tx_endpoint
                   /\ \A j \in DOMAIN made : j # i => made[j].config # made[i].config
              ELSE made[i].config = 1
        /\ \A i, j \in DOMAIN made : i # j => made[i].labels # made[j].labels
        /\ DOMAIN marked = DOMAIN made
        /\ \A i \in DOMAIN made : StatusOf(i) = marked[i]

\* a landing class and another class were registered, the twin was created,
\* and the twin alone has marked its status
C30_Witness ==
    /\ cpc = "returned"
    /\ Len(made) = 3
    /\ ~IsTwin(1) /\ IsTwin(2) /\ ~IsTwin(3)
    /\ endpoints_of(heap, made[1].config).main_endpoint = "http"
    /\ endpoints_of(heap, made[2].config).main_endpoint = "tx"
    /\ made[3].config = made[1].config
    /\ StatusOf(1) = "pending" /\ StatusOf(2) = "failed" /\ StatusOf(3) = "pending"

-----------------------------------------------------------------------------
(* Claims about the requests of the fetcher, checked under SpecRpc *)

\* the search went on to another slot, or to its end, after the entry
WentOn(i) == i < Len(fhistory) \/ fpc \in {"request", "sleep", "no_blocks_found"}

\* C31: the error with the code -32004 ends the requests for its slot at
\* once, no sleep following it, and the search goes on with the next slot;
\* any other error of the node or of the transport ends the requests for
\* its slot only as the answer of the third attempt, a sleep of the fixed
\* delay lying between the attempts, and then ends the search.
C31_NotAvailableSkipsOthersRetryThenAbort ==
    \A i \in DOMAIN fhistory :
       LET h == fhistory[i]
       IN /\ h.last = "not_available" =>
                /\ Len(h.sleeps) = h.requests - 1
                /\ WentOn(i)
          /\ h.last \in {"rpc_error", "rpc_error_text", "transport"} =>
                /\ h.requests = fetcher_max_retries
                /\ h.sleeps = [k \in 1 .. fetcher_max_retries - 1 |->
                                 fetcher_retry_delay]
                /\ i = Len(fhistory) /\ fpc = "raised"

-----------------------------------------------------------------------------
(* Claims about the requests of a JSON-RPC probe, checked under SpecProbe *)

\* C33: a JSON-RPC probe sends at most MAX_RETRIES requests; every request
\* but the last got a 429 and was followed by a sleep of the Retry-After
\* read from it, so there is no second request after an exception or after
\* another status; and a probe whose last request got a 429, another
\* status than 200, or an exception has returned as failed.
C33_ResendOnlyAfter429 ==
    kind = "jsonrpc" =>
       /\ requests <= MAX_RETRIES /\ Len(rpc_log) = requests
       /\ pc = "request" => Len(slept) = requests
       /\ pc \in {"sleep", "done"} => Len(slept) = requests - 1
       /\ \A i \in DOMAIN slept :
             /\ rpc_log[i].answer = "429"
             /\ rpc_log[i].retry_after = Some(slept[i])
       /\ (pc = "done" /\ last_response \in {"429", "500", "TimeoutError", "Error"}) =>
             response_status = "failed" /\ AllZero(values)
       /\ (pc = "done" /\ last_response = "429") =>
             requests = MAX_RETRIES \/ rpc_log[requests].retry_after = Nil

\* two 429 with different Retry-After, each slept once, then a 429 on the
\* third request
C33_Witness ==
    /\ kind = "jsonrpc" /\ pc = "done"
    /\ requests = MAX_RETRIES
    /\ slept = <<1, 2>>
    /\ last_response = "429"
    /\ response_status = "failed"


-----------------------------------------------------------------------------
(* Claims about the connection time, checked under SpecJsonRpc *)

\* the connection time of an attempt itself: 0 when it created no connection
OwnConnTime(a) == IF a.conn = Nil THEN 0 ELSE Val(a.conn)

\* C34: with the connection time excluded, the latency reported is the wall
\* time of the final attempt minus the connection time of that same attempt,
\* and is never negative: for measure_http_request_timing, and for a JSON-RPC
\* probe, also after a 429 retry that reused the connection.
C34_LatencyIsOfTheFinalAttempt ==
    /\ (tpc = "done" /\ texclude /\ tresponse_time # Nil) =>
          LET a == tattempts[Len(tattempts)]
          IN  /\ Val(tresponse_time) = a.wall - OwnConnTime(a)
              /\ Val(tresponse_time) >= 0
    /\ (kind = "jsonrpc" /\ pc = "done" /\ response_status = "success") =>
          LET a == rpc_log[requests]
          IN  /\ Val(latency) = a.wall - OwnConnTime(a)
              /\ Val(latency) >= 0

\* the half of C34 about measure_http_request_timing alone
C34_UtilityHalf ==
    (tpc = "done" /\ texclude /\ tresponse_time # Nil) =>
       LET a == tattempts[Len(tattempts)]
       IN  /\ Val(tresponse_time) = a.wall - OwnConnTime(a)
           /\ Val(tresponse_time) >= 0


-----------------------------------------------------------------------------
(* Claims about the waits of the push, checked under SpecTrigger *)

\* C35: between any two consecutive push attempts the task waits the fixed
\* push_retry_delay, whether the earlier attempt failed by an exception or by
\* a status other than 200/204, and it does not wait after the last attempt.
C35_FixedDelayBetweenPushAttempts ==
    /\ \A i \in DOMAIN push_sleeps : push_sleeps[i] = GRAFANA_PUSH_RETRY_DELAY
    \* about to send the next attempt: every attempt before it was waited after
    /\ gpc = "post" => Len(push_sleeps) = Len(posts)
    /\ gpc = "push_sleep" => Len(push_sleeps) = Len(posts) - 1
    \* after the last attempt: one wait between each two attempts, none after
    /\ (PushEnded /\ posts # <<>>) => Len(push_sleeps) = Len(posts) - 1

\* the part of C35 the code keeps: a wait follows only an attempt that raised
C35_WaitOnlyAfterException ==
    /\ \A i \in DOMAIN push_sleeps : push_sleeps[i] = GRAFANA_PUSH_RETRY_DELAY
    /\ PushEnded =>
          Len(push_sleeps) =
             Cardinality({i \in 1 .. Len(posts) - 1 : posts[i] = "Error"})


-----------------------------------------------------------------------------
(* Claims about one update of the blob, checked under SpecRace *)

ChainKeys == {"ethereum", "solana", "ton", "base"}

\* writer w made its update alone: it returned, and no other writer has sent
\* a request
UpdatedAlone(w) ==
    /\ wresult[w] = "returned"
    /\ \A v \in Writers \ {w} : wpc[v] = "start"

\* C36: an update(chain, block, tx) that no other writer interleaves with
\* changes only the entry of that chain (and updated_at); the entries of the
\* other chains are as they were before it, also when it is the first update
\* through a newly constructed handler.
C36_UpdateLeavesOtherChains ==
    \A w \in Writers :
       UpdatedAlone(w) =>
          /\ blob[wchain[w]] = WrittenEntry(w)
          /\ \A k \in ChainKeys \ {wchain[w]} : blob[k] = blob_at_start[k]

\* the part of C36 the code keeps: the other chains' entries are those of
\* the document the update read, which is the document of before or, after
\* the initialize of a new handler, initial_data
C36_OtherChainsAsRead ==
    \A w \in Writers :
       UpdatedAlone(w) =>
          /\ blob[wchain[w]] = WrittenEntry(w)
          /\ \A k \in ChainKeys \ {wchain[w]} : blob[k] = Val(wread[w])[k]
          /\ Val(wread[w]) \in {blob_at_start, initial_data}

-----------------------------------------------------------------------------
(* Claims about overlapping invocations, checked under SpecOverlap *)

\* the probes the handler of invocation n registered for its chain, built
\* from a registry that holds its registration
OwnCreate(n) ==
    overlap_create(register(clear(<<>>), ochain[n], ometrics[n]), n)
OwnProbes(n) == OwnCreate(n).made

Classes_of(insts) == [j \in DOMAIN insts |-> insts[j].cls]

\* invocation n overlapped with the other one: it has built, or failed to
\* build, its probes
Collected(n) == opc[n] \in {"awaiting", "task_raised", "done"}

\* C37: the class-level registry is safe under interleaving: when two handle
\* invocations for different chains overlap, each builds exactly the probes
\* registered for its own chain, and neither loses its output.
C37_OverlappingInvocationsKeepTheirProbes ==
    \A n \in Invocations :
       /\ Collected(n) =>
             Classes_of(oinstances[n]) = Classes_of(OwnProbes(n))
       /\ (opc[n] = "done" /\ ~OwnCreate(n).raised) =>
             {l.src : l \in {ooutput[n][j] : j \in DOMAIN ooutput[n]}}
                = {Src(OwnProbes(n)[j]) : j \in DOMAIN OwnProbes(n)}

\* what the code keeps: an invocation whose registration is still in the
\* registry when its collect_metrics task runs builds its own probes
C37_ProbesOfTheRegistryAtCollect ==
    \A n \in Invocations :
       (Collected(n) /\ Classes_of(oinstances[n]) # Classes_of(OwnProbes(n))) =>
          /\ oinstances[n] = <<>>
          /\ ochain[n] \notin DOMAIN oregistry


-----------------------------------------------------------------------------
(* Claims about the unsubscribe request, checked under SpecProbe *)

\* the unsubscribe requests among the messages sent
UnsubscribesSent == {i \in DOMAIN sent : sent[i] \in UnsubscribeMsgs}

UnsubscribeOnlyWhenSubscribed ==
    /\ Cardinality(UnsubscribesSent) <= 1
    /\ UnsubscribesSent # {} => subscription_id # Nil
    /\ (pc = "done" /\ websocket # None /\ subscription_id = Nil) =>
          UnsubscribesSent = {} /\ closeCalls = 1

\* C38: a WebSocket probe sends an unsubscribe request only when its
\* subscribe obtained a non-null subscription id, and at most once per
\* collect_metric; when subscribe failed or never ran, cleanup sends no
\* unsubscribe request and only closes the socket.
C38_UnsubscribeOnlyWithSubscriptionId ==
    kind \in WsKinds => UnsubscribeOnlyWhenSubscribed

\* C38 for the probes of metrics/ethereum.py, whose unsubscribe has the test
\* of subscription_id
C38_EvmProbesUnsubscribeOnlyWithId ==
    kind \in WsKinds \ {"ws_sol"} => UnsubscribeOnlyWhenSubscribed


-----------------------------------------------------------------------------
(* Claims about the read of the reference state, checked under Spec *)

\* the probes this invocation constructed
Constructed == {i \in DOMAIN instances : instances[i].reg # 0}

====
